---- MODULE Spec2Model ----
(***************************************************************************)
(* Model of the artist-insights dashboard: the event chart                 *)
(* (src/components/EventGraph.tsx) and the artists table                   *)
(* (src/unnamed/part_000).                                                 *)
(*                                                                         *)
(* Time is kept in whole seconds since the Unix epoch (the source mixes    *)
(* seconds and milliseconds; no label or window of the program depends on  *)
(* the sub-second part).  The local time zone of the browser is part of    *)
(* the environment: a zone is a standard offset plus the daylight-saving   *)
(* rule of its region.                                                     *)
(***************************************************************************)
EXTENDS Integers, Sequences, FiniteSets, TLC

(***************************************************************************)
(* Program constants.                                                      *)
(***************************************************************************)
DaySeconds == 86400
HourSeconds == 3600
HalfHourSeconds == 1800
WeekDays == 7
MonthDays == 30
DayHours == 24
EventPageLimit == 1000
ArtistPageLimit == 100
itemsPerPage == 10

TIME_RANGES == [DAY |-> "day", WEEK |-> "week", MONTH |-> "month"]
TimeRangeValues == {TIME_RANGES.DAY, TIME_RANGES.WEEK, TIME_RANGES.MONTH}

(* The value of an invalid Date / a NaN number: a reserved integer outside *)
(* every value the model computes.                                         *)
NaN == 0 - 2000000000

IsNaN(x) == x = NaN

(* The value null of a JSON field.  As a number it is 0.                   *)
Null == 0 - 2000000002

(***************************************************************************)
(* The proleptic Gregorian calendar of ECMAScript Dates.                   *)
(***************************************************************************)
DaysFromCivil(y, m, d) ==
    LET yy  == IF m <= 2 THEN y - 1 ELSE y
        era == yy \div 400
        yoe == yy - era * 400
        mp  == IF m > 2 THEN m - 3 ELSE m + 9
        doy == (153 * mp + 2) \div 5 + d - 1
        doe == yoe * 365 + yoe \div 4 - yoe \div 100 + doy
    IN  era * 146097 + doe - 719468

CivilFromDays(days) ==
    LET z   == days + 719468
        era == z \div 146097
        doe == z - era * 146097
        yoe == (doe - doe \div 1460 + doe \div 36524 - doe \div 146096) \div 365
        doy == doe - (365 * yoe + yoe \div 4 - yoe \div 100)
        mp  == (5 * doy + 2) \div 153
        d   == doy - (153 * mp + 2) \div 5 + 1
        m   == IF mp < 10 THEN mp + 3 ELSE mp - 9
        y   == yoe + era * 400 + (IF m <= 2 THEN 1 ELSE 0)
    IN  [year |-> y, month |-> m, day |-> d]

(* The instant of a UTC calendar date and time of day.                     *)
UtcInstant(y, m, d, hh, mm) ==
    DaysFromCivil(y, m, d) * 86400 + hh * 3600 + mm * 60

(***************************************************************************)
(* The environment: time zones.  A zone is a standard offset and a         *)
(* daylight-saving rule; offset(t) = std, or std + 1h inside the daylight  *)
(* interval of the year of t.  The rules are those of the time zone        *)
(* database: "US" from 1967 (1974 and 1975 started early), "EU" for        *)
(* Germany from 1980; earlier years are read as standard time.             *)
(***************************************************************************)
ZoneUTC == [name |-> "UTC", std |-> 0, rule |-> "none"]
ZoneNewYork == [name |-> "America/New_York", std |-> 0 - 18000, rule |-> "US"]
ZoneBerlin == [name |-> "Europe/Berlin", std |-> 3600, rule |-> "EU"]
Zones == {ZoneUTC, ZoneNewYork, ZoneBerlin}

(* y is the UTC year of t and m the day number of its March 1 (every       *)
(* fourth year is a leap year from 1901 to 2099).  US clocks change at     *)
(* 02:00 local time: from 2007 on the second Sunday of March and the       *)
(* first of November, from 1987 on the first Sunday of April and, as       *)
(* before, the last of October, until 1986 on the last Sunday of April     *)
(* (1975-02-23, 1974-01-06).  EU clocks change at 01:00 UTC on the last    *)
(* Sunday of March (1980: first of April) and the last Sunday of October   *)
(* (until 1995: of September).  The instants are compared by the day the   *)
(* clock of the change shows, which is the same comparison.                *)
InDst(z, t) ==
    /\ z.rule # "none"
    /\ \E y \in {1968 + (4 * (t \div DaySeconds + 731)) \div 1461} :
       \E m \in {365 * (y - 1970) + (y - 1969) \div 4 + 59
                    + (IF y % 4 = 0 THEN 1 ELSE 0)} :
          LET sundayFrom(d) == d + ((7 - ((d + 4) % 7)) % 7)
              sundayUpTo(d) == d - ((d + 4) % 7)
              dayAt(shift)  == (t - shift) \div DaySeconds
          IN  IF z.rule = "US"
              THEN /\ y >= 1967
                   /\ dayAt(2 * HourSeconds - z.std)
                        >= (IF y >= 2007 THEN sundayFrom(m) + 7
                            ELSE IF y >= 1987 THEN sundayFrom(m + 31)
                            ELSE IF y = 1975 THEN 1879
                            ELSE IF y = 1974 THEN 1466
                            ELSE sundayUpTo(m + 60))
                   /\ dayAt(HourSeconds - z.std)
                        < (IF y >= 2007 THEN sundayFrom(m + 245)
                           ELSE sundayUpTo(m + 244))
              ELSE /\ y >= 1980
                   /\ dayAt(HourSeconds)
                        >= (IF y = 1980 THEN sundayFrom(m + 31)
                            ELSE sundayUpTo(m + 30))
                   /\ dayAt(HourSeconds)
                        < (IF y >= 1996 THEN sundayUpTo(m + 244)
                           ELSE sundayUpTo(m + 213))
ZoneOffset(z, t) == IF InDst(z, t) THEN z.std + HourSeconds ELSE z.std

(* LocalTime(t) of ECMAScript: the local clock reading, in seconds.        *)
LocalTime(z, t) == t + ZoneOffset(z, t)

(* UTC(t) of ECMAScript: a local clock reading back to an instant.  A      *)
(* repeated reading takes the earlier instant, a skipped reading is read   *)
(* with the offset before the transition.                                  *)
LocalToUtc(z, local) ==
    IF InDst(z, local - z.std - HourSeconds)
    THEN local - z.std - HourSeconds
    ELSE local - z.std

(* Date getters in local time.                                             *)
LocalDayNumber(z, t) == LocalTime(z, t) \div DaySeconds
getHours(z, t) ==
    IF IsNaN(t) THEN NaN ELSE (LocalTime(z, t) % DaySeconds) \div HourSeconds
getWeekday(z, t) == (LocalDayNumber(z, t) + 4) % 7
LocalCivil(z, t) == CivilFromDays(LocalDayNumber(z, t))

(* date.setHours(h, 0, 0, 0)                                               *)
setHours(z, t, h) ==
    IF IsNaN(t) THEN NaN
    ELSE LocalToUtc(z, LocalDayNumber(z, t) * DaySeconds + h * HourSeconds)

(* date.setDate(date.getDate() + daysOffset)                               *)
addDays(z, t, daysOffset) ==
    IF IsNaN(t) THEN NaN
    ELSE LocalToUtc(z, LocalTime(z, t) + daysOffset * DaySeconds)

(* A calendar date string "YYYY-MM-DD" is the record [year, month, day];   *)
(* NoDate stands for the empty string of a cleared date input.             *)
(* new Date(string) reads a date-only ISO string as midnight UTC and the   *)
(* empty string as an invalid Date.                                        *)
NoDate == [year |-> 0, month |-> 0, day |-> 0]
IsoDate(y, m, d) == [year |-> y, month |-> m, day |-> d]
ParseIsoDate(date) ==
    IF date = NoDate THEN NaN
    ELSE DaysFromCivil(date.year, date.month, date.day) * DaySeconds

(* new Date().toISOString().split("T")[0]: the UTC calendar date.          *)
ToIsoDate(t) == CivilFromDays(t \div DaySeconds)

(***************************************************************************)
(* en-US label formatting (toLocaleString / toLocaleDateString).           *)
(***************************************************************************)
MonthShort ==
    <<"Jan", "Feb", "Mar", "Apr", "May", "Jun",
      "Jul", "Aug", "Sep", "Oct", "Nov", "Dec">>
WeekdayShort == <<"Sun", "Mon", "Tue", "Wed", "Thu", "Fri", "Sat">>
InvalidDateLabel == "Invalid Date"

MonthDayText(z, t) ==
    LET c == LocalCivil(z, t)
    IN  MonthShort[c.month] \o " " \o ToString(c.day)

(* {day: "numeric", month: "short", hour: "numeric", hour12: true}         *)
HourLabel(z, t) ==
    IF IsNaN(t) THEN InvalidDateLabel
    ELSE LET h   == getHours(z, t)
             h12 == IF h % 12 = 0 THEN 12 ELSE h % 12
         IN  MonthDayText(z, t) \o ", " \o ToString(h12) \o " "
                \o (IF h < 12 THEN "AM" ELSE "PM")

(* {weekday: "short", month: "short", day: "numeric"}                      *)
WeekLabel(z, t) ==
    IF IsNaN(t) THEN InvalidDateLabel
    ELSE WeekdayShort[getWeekday(z, t) + 1] \o ", " \o MonthDayText(z, t)

(* {day: "numeric", month: "short"}                                        *)
MonthLabel(z, t) ==
    IF IsNaN(t) THEN InvalidDateLabel ELSE MonthDayText(z, t)

(***************************************************************************)
(* Bucket Maps: a JavaScript object with string keys, kept in insertion    *)
(* order, as a sequence of [k, v] entries with distinct keys.              *)
(***************************************************************************)
EmptyMap == <<>>
MapKeys(m) == {m[i].k : i \in DOMAIN m}
MapHas(m, key) == key \in MapKeys(m)
MapIndex(m, key) == CHOOSE i \in DOMAIN m : m[i].k = key
MapGet(m, key) == m[MapIndex(m, key)].v
(* m[key] = value                                                          *)
MapPut(m, key, value) ==
    IF MapHas(m, key)
    THEN [m EXCEPT ![MapIndex(m, key)].v = value]
    ELSE Append(m, [k |-> key, v |-> value])
RECURSIVE MapSumFrom(_, _)
MapSumFrom(m, i) == IF i > Len(m) THEN 0 ELSE m[i].v + MapSumFrom(m, i + 1)
(* Object.values(m).reduce((sum, count) => sum + count, 0)                 *)
MapSum(m) == MapSumFrom(m, 1)

(***************************************************************************)
(* Records.  A raw event is its block_timestamp (seconds), NaN when the    *)
(* field is missing or is not a number, or Null when the field is null.    *)
(***************************************************************************)
BaseEvent(ts) == [block_timestamp |-> ts]

(* new Date(event.block_timestamp * 1000): null * 1000 is 0, the epoch.    *)
EventDate(event) ==
    IF event.block_timestamp = Null THEN 0 ELSE event.block_timestamp

(***************************************************************************)
(* getDateRange(date, daysOffset)            EventGraph.tsx 130-138        *)
(***************************************************************************)
getDateRange(z, date, daysOffset) ==
    LET dateTime   == ParseIsoDate(date)
        shifted    == addDays(z, dateTime, daysOffset)
        startOfDay == setHours(z, shifted, 0)
    IN  [startOfDay |-> startOfDay,
         endOfDay   |-> IF IsNaN(startOfDay) THEN NaN
                        ELSE startOfDay + DayHours * HourSeconds]

(***************************************************************************)
(* initializeTimePeriodData(timeRange, selectedDate)   EventGraph 141-238  *)
(* `now` is the wall clock read by `new Date()` on entry.                  *)
(***************************************************************************)
(* A loop of `counts[label] = 0` over the labels in order: a label met     *)
(* again keeps its first position, so the map has one key per distinct     *)
(* label, in order of first assignment, all at zero.                       *)
ZeroMap(labels) ==
    LET first == {i \in DOMAIN labels :
                     \A j \in 1..(i - 1) : labels[j] # labels[i]}
        rank  == [i \in DOMAIN labels |-> Cardinality({j \in first : j <= i})]
                 \o <<>>
    IN  [p \in 1..Cardinality(first) |->
            [k |-> labels[CHOOSE i \in first : rank[i] = p], v |-> 0]]

(* for (let i = 0; i < 24; i++) { ... counts[hourStr] = 0 }                *)
InitHourBuckets(z, dayStart) ==
    ZeroMap([n \in 1..DayHours |-> HourLabel(z, setHours(z, dayStart, n - 1))]
            \o <<>>)

(* Array.from({length: 7}, (_, i) => now - (back - i) days, at midnight)   *)
InitWeekBuckets(z, now, back) ==
    ZeroMap([n \in 1..WeekDays |->
                WeekLabel(z, setHours(z, now - (back - (n - 1)) * DaySeconds, 0))]
            \o <<>>)

(* for (let i = 29; i >= 0; i--) { now - (i + shift) days }                *)
InitMonthBuckets(z, now, shift) ==
    ZeroMap([n \in 1..MonthDays |->
                MonthLabel(z, now - ((MonthDays - n) + shift) * DaySeconds)]
            \o <<>>)

initializeTimePeriodData(z, now, timeRange, selectedDate) ==
    IF timeRange = TIME_RANGES.DAY
    THEN LET startOfDay     == getDateRange(z, selectedDate, 0).startOfDay
             prevStartOfDay == getDateRange(z, selectedDate, 0 - 1).startOfDay
         IN  [counts         |-> InitHourBuckets(z, startOfDay),
              previousCounts |-> InitHourBuckets(z, prevStartOfDay)]
    ELSE IF timeRange = TIME_RANGES.WEEK
    THEN [counts         |-> InitWeekBuckets(z, now, WeekDays - 1),
          previousCounts |-> InitWeekBuckets(z, now, 2 * WeekDays - 1)]
    ELSE [counts         |-> InitMonthBuckets(z, now, 0),
          previousCounts |-> InitMonthBuckets(z, now, MonthDays)]

(***************************************************************************)
(* countEvents(events, countMap, timeRange)        EventGraph.tsx 241-277  *)
(***************************************************************************)
(* The label computed for one record.                                      *)
timeLabel(z, event, timeRange) ==
    LET date == EventDate(event)
    IN  IF timeRange = TIME_RANGES.DAY THEN HourLabel(z, date)
        ELSE IF timeRange = TIME_RANGES.WEEK
             THEN WeekLabel(z, setHours(z, date, 0))
             ELSE MonthLabel(z, date)

(* Faulty variants of one forEach iteration: one that adds a missing label *)
(* as a new key, one that books a record with no bucket on the first one.  *)
countEvent_AddsKey(z, event, countMap, timeRange) ==
    LET label == timeLabel(z, event, timeRange)
    IN  MapPut(countMap, label,
               IF MapHas(countMap, label) THEN MapGet(countMap, label) + 1 ELSE 1)

countEvent_KeepsAll(z, event, countMap, timeRange) ==
    LET label == timeLabel(z, event, timeRange)
        key   == IF MapHas(countMap, label) THEN label ELSE countMap[1].k
    IN  MapPut(countMap, key, MapGet(countMap, key) + 1)

(* One iteration of events.forEach.                                        *)
countEvent(z, event, countMap, timeRange) ==
    LET label == timeLabel(z, event, timeRange)
    IN  IF MapHas(countMap, label)
        THEN MapPut(countMap, label, MapGet(countMap, label) + 1)
        ELSE countMap

RECURSIVE countEventsFrom(_, _, _, _, _)
countEventsFrom(z, events, i, countMap, timeRange) ==
    IF i > Len(events) THEN countMap
    ELSE countEventsFrom(z, events, i + 1,
            countEvent(z, events[i], countMap, timeRange), timeRange)

countEvents(z, events, countMap, timeRange) ==
    countEventsFrom(z, events, 1, countMap, timeRange)

(***************************************************************************)
(* timeStamps (useMemo with no dependencies: computed once, at mount)      *)
(*                                                   EventGraph.tsx 64-73  *)
(***************************************************************************)
(* An optional argument that was not passed / a variable never assigned.   *)
Undefined == 0 - 2000000001

timeStampsAt(now) ==
    [now              |-> now,
     oneDayAgo        |-> now - DayHours * HourSeconds,
     oneWeekAgo       |-> now - WeekDays * DaySeconds,
     oneMonthAgo      |-> now - MonthDays * DaySeconds,
     thirtyMinutesAgo |-> now - HalfHourSeconds]

(***************************************************************************)
(* fetchData: the time ranges of the two period queries                    *)
(*                                                 EventGraph.tsx 295-323  *)
(***************************************************************************)
periodLength(timeRange) ==
    IF timeRange = TIME_RANGES.DAY THEN DayHours * HourSeconds
    ELSE IF timeRange = TIME_RANGES.WEEK THEN WeekDays * DaySeconds
    ELSE MonthDays * DaySeconds

queryRanges(z, ts, timeRange, selectedDate) ==
    IF timeRange = TIME_RANGES.DAY /\ selectedDate # NoDate
    THEN LET cur  == getDateRange(z, selectedDate, 0)
             prev == getDateRange(z, selectedDate, 0 - 1)
         IN  [currentStart  |-> cur.startOfDay,
              currentEnd    |-> cur.endOfDay,
              previousStart |-> prev.startOfDay,
              previousEnd   |-> prev.endOfDay]
    ELSE LET currentStart ==
                 IF timeRange = TIME_RANGES.DAY THEN ts.oneDayAgo
                 ELSE IF timeRange = TIME_RANGES.WEEK THEN ts.oneWeekAgo
                 ELSE ts.oneMonthAgo
         IN  [currentStart  |-> currentStart,
              currentEnd    |-> Undefined,
              previousStart |-> currentStart - periodLength(timeRange),
              previousEnd   |-> currentStart]

(***************************************************************************)
(* fetchEventsWithPagination: the loop            EventGraph.tsx 76-127    *)
(***************************************************************************)
(* The rows the query's where-clause selects, in the order of the          *)
(* order_by clause (the server keeps its rows in block_timestamp order).   *)
(* `endTime ? ", _lt: ..." : ""` leaves the range open above when endTime  *)
(* is undefined, NaN or 0.                                                 *)
SelectRows(rows, startTime, endTime) ==
    LET hit(row) ==
            /\ row.block_timestamp \notin {NaN, Null}
            /\ row.block_timestamp >= startTime
            /\ (endTime \in {Undefined, NaN, 0} \/ row.block_timestamp < endTime)
    IN  SelectSeq(rows, hit)

Min(a, b) == IF a < b THEN a ELSE b

(* limit: 1000, offset: ${offset}                                          *)
eventsPage(rows, args, offset) ==
    LET matching == SelectRows(rows, args.startTime, args.endTime)
    IN  SubSeq(matching, offset + 1, Min(Len(matching), offset + EventPageLimit))

(* let allEvents = []; let offset = 0; let hasMore = true;                 *)
eventsLoopStart == [allEvents |-> <<>>, offset |-> 0, hasMore |-> TRUE]

(* Faulty variant: a full page already ends the loop.                      *)
eventsOnPage_StopsOnFullPage(loop, events) ==
    IF Len(events) <= EventPageLimit
    THEN [loop EXCEPT !.allEvents = loop.allEvents \o events,
                      !.hasMore = FALSE]
    ELSE [loop EXCEPT !.allEvents = loop.allEvents \o events,
                      !.offset = loop.offset + EventPageLimit]

(* the try block: the page arrived                                         *)
eventsOnPage(loop, events) ==
    IF Len(events) < EventPageLimit
    THEN [loop EXCEPT !.allEvents = loop.allEvents \o events,
                      !.hasMore = FALSE]
    ELSE [loop EXCEPT !.allEvents = loop.allEvents \o events,
                      !.offset = loop.offset + EventPageLimit]

(* Faulty variant: the rejection also throws the accumulated pages away.   *)
eventsOnError_DropsPages(loop) ==
    [loop EXCEPT !.hasMore = FALSE, !.allEvents = <<>>]

(* the catch block: the request was rejected                               *)
eventsOnError(loop) == [loop EXCEPT !.hasMore = FALSE]

(***************************************************************************)
(* fetchAllArtists: the loop                         part_000 54-115       *)
(***************************************************************************)
(* The server's answer to Artists(page, limit: 100).                       *)
artistsPage(rows, page) ==
    [docs        |-> SubSeq(rows, (page - 1) * ArtistPageLimit + 1,
                            Min(Len(rows), page * ArtistPageLimit)),
     hasNextPage |-> page * ArtistPageLimit < Len(rows)]

(* let allArtists = []; let page = 1; let hasMore = true;                  *)
artistsLoopStart == [allArtists |-> <<>>, page |-> 1, hasMore |-> TRUE]

artistsOnPage(loop, artistsData) ==
    IF ~artistsData.hasNextPage
    THEN [loop EXCEPT !.allArtists = loop.allArtists \o artistsData.docs,
                      !.hasMore = FALSE]
    ELSE [loop EXCEPT !.allArtists = loop.allArtists \o artistsData.docs,
                      !.page = loop.page + 1]

(* What the view holds after the loop ended normally: setArtists(all).     *)
artistsOnSuccess(held, loop) == loop.allArtists

(* Variant with the event pager's policy: the pages fetched so far become  *)
(* the collection.                                                         *)
artistsOnError_KeepsPages(held, loop) == loop.allArtists

(* What the view holds after a request was rejected: the rejection leaves  *)
(* the loop through the outer catch, which only logs.                      *)
artistsOnError(held, loop) == held

(***************************************************************************)
(* new Date(timeLabel): a Bucket Label read back as a date.  The labels    *)
(* are not in a format ECMAScript specifies, so the result is the          *)
(* engine's: a label with month and day only ("Oct 29", "Wed, Oct 29")     *)
(* is given a year by the legacy parser (2001, local midnight; the         *)
(* weekday word is ignored) or is rejected; an hour label                  *)
(* ("Oct 29, 2 PM") is rejected, a meridiem being accepted only after a    *)
(* time with a colon; "Invalid Date" is rejected.  DateParses are the      *)
(* two engine behaviours for the labels without an hour.                   *)
(***************************************************************************)
DateParses == {"year2001", "invalid"}

MonthDayString(md) == MonthShort[md[1]] \o " " \o ToString(md[2])

(* Every month-and-day text and every weekday-month-day text, the n-th     *)
(* being that of month (n - 1) \div 31 + 1, day (n - 1) % 31 + 1.          *)
MonthDays2001 == 1..(12 * 31)
MonthDayOf(n) == <<((n - 1) \div 31) + 1, ((n - 1) % 31) + 1>>
MonthDayLabels == [n \in MonthDays2001 |-> MonthDayString(MonthDayOf(n))] \o <<>>
WeekdayMonthDayLabels ==
    [w \in DOMAIN WeekdayShort |->
        [n \in MonthDays2001 |->
            WeekdayShort[w] \o ", " \o MonthDayString(MonthDayOf(n))] \o <<>>]
    \o <<>>

(* The same texts as a table from the text to its month and day.           *)
LabelMonthDayPairs ==
    {<<MonthDayLabels[k], k>> : k \in MonthDays2001}
    \cup {<<WeekdayMonthDayLabels[w][k], k>> :
            w \in DOMAIN WeekdayShort, k \in MonthDays2001}
LabelMonthDay ==
    [label \in {p[1] : p \in LabelMonthDayPairs} |->
        MonthDayOf(CHOOSE k \in MonthDays2001 : <<label, k>> \in LabelMonthDayPairs)]
    @@ <<>>

ParsedMonthDay(label) ==
    IF label \in DOMAIN LabelMonthDay THEN {LabelMonthDay[label]} ELSE {}

parseLabel(z, dp, label) ==
    LET mds == ParsedMonthDay(label)
    IN  IF mds = {} \/ dp = "invalid" THEN NaN
        ELSE LET md == CHOOSE x \in mds : TRUE
             IN  LocalToUtc(z, UtcInstant(2001, md[1], md[2], 0, 0))

(***************************************************************************)
(* chartData                                       EventGraph.tsx 362-431  *)
(***************************************************************************)
(* Object.entries(map).map(([timeLabel, count]) => ({timeLabel, count,     *)
(* hour})): in day mode a bucket of an hour after the current one is       *)
(* shown as 0 and `hour` is the hour of the label plus one; otherwise      *)
(* `hour` is the time of the label.                                        *)
chartRow(z, now, dp, timeRange, entry) ==
    LET parsed == parseLabel(z, dp, entry.k)
        h      == getHours(z, parsed)
    IN  IF timeRange = TIME_RANGES.DAY
        THEN [timeLabel |-> entry.k,
              count     |-> IF ~IsNaN(h) /\ h > getHours(z, now) THEN 0 ELSE entry.v,
              hour      |-> IF IsNaN(h) THEN NaN ELSE (h + 1) % DayHours]
        ELSE [timeLabel |-> entry.k, count |-> entry.v, hour |-> parsed]

(* The same callback over previousEventCounts, where the count is the      *)
(* field previousCount.                                                    *)
previousChartRow(z, now, dp, timeRange, entry) ==
    LET row == chartRow(z, now, dp, timeRange, entry)
    IN  [timeLabel |-> row.timeLabel, previousCount |-> row.count,
         hour |-> row.hour]

(* The comparator of .sort((a, b) => ...)                                  *)
compareRows(z, now, timeRange, a, b) ==
    IF IsNaN(a.hour) \/ IsNaN(b.hour) THEN NaN
    ELSE IF timeRange = TIME_RANGES.DAY
    THEN LET currentHour == (getHours(z, now) + 1) % DayHours
             hourA == (a.hour - currentHour + DayHours) % DayHours
             hourB == (b.hour - currentHour + DayHours) % DayHours
         IN  hourA - hourB
    ELSE a.hour - b.hour

(* Array.prototype.sort with that comparator: stable; a comparator result *)
(* of NaN counts as 0.                                                     *)
sortRows(z, now, timeRange, rows) ==
    LET before(i, j) ==
            LET c == compareRows(z, now, timeRange, rows[i], rows[j])
            IN  IF IsNaN(c) \/ c = 0 THEN i < j ELSE c < 0
        rank == [i \in DOMAIN rows |->
                    Cardinality({j \in DOMAIN rows : j # i /\ before(j, i)}) + 1]
                \o <<>>
    IN  [p \in DOMAIN rows |-> rows[CHOOSE i \in DOMAIN rows : rank[i] = p]]

(* `data`: the entries of the current Bucket Map, sorted.                  *)
chartRows(z, now, dp, timeRange, map) ==
    sortRows(z, now, timeRange,
             [i \in DOMAIN map |-> chartRow(z, now, dp, timeRange, map[i])] \o <<>>)

(* `previousData`: the entries of the previous Bucket Map, sorted.         *)
previousChartRows(z, now, dp, timeRange, map) ==
    sortRows(z, now, timeRange,
             [i \in DOMAIN map |->
                previousChartRow(z, now, dp, timeRange, map[i])] \o <<>>)

(* previousData[j]?.previousCount || 0, j counted from 1                   *)
previousCountAt(previousData, j) ==
    IF j \in DOMAIN previousData THEN previousData[j].previousCount ELSE 0

(* "Merge current and previous data": point i of the chart.                *)
mergedData(timeRange, data, previousData) ==
    IF timeRange = TIME_RANGES.DAY
    THEN [i \in DOMAIN data |->
            [timeLabel     |-> data[i].timeLabel,
             count         |-> data[i].count,
             previousCount |-> previousCountAt(previousData, i)]]
    ELSE [i \in DOMAIN data |->
            [timeLabel     |-> data[i].timeLabel,
             count         |-> data[Len(data) + 1 - i].count,
             previousCount |->
                previousCountAt(previousData, Len(previousData) + 1 - i)]]

chartData(z, now, dp, timeRange, current, previous) ==
    mergedData(timeRange,
               chartRows(z, now, dp, timeRange, current),
               previousChartRows(z, now, dp, timeRange, previous))

(***************************************************************************)
(* totals                                          EventGraph.tsx 434-455  *)
(* percentageChange is kept as the exact quotient num / den (den > 0).     *)
(***************************************************************************)
percentageChange(currentTotal, previousTotal) ==
    IF previousTotal = 0
    THEN [num |-> IF currentTotal > 0 THEN 100 ELSE 0, den |-> 1]
    ELSE [num |-> (currentTotal - previousTotal) * 100, den |-> previousTotal]

(* A faulty variant: an unchanged total shown as a rise.                   *)
totals_ZeroIsPositive(current, previous) ==
    LET currentTotal  == MapSum(current)
        previousTotal == MapSum(previous)
        change        == percentageChange(currentTotal, previousTotal)
    IN  [currentTotal     |-> currentTotal,
         previousTotal    |-> previousTotal,
         percentageChange |-> change,
         isPositive       |-> change.num >= 0]

totals(current, previous) ==
    LET currentTotal  == MapSum(current)
        previousTotal == MapSum(previous)
        change        == percentageChange(currentTotal, previousTotal)
    IN  [currentTotal     |-> currentTotal,
         previousTotal    |-> previousTotal,
         percentageChange |-> change,
         isPositive       |-> change.num > 0]

(***************************************************************************)
(* The view: the selected event and one call of fetchData                  *)
(*                                          EventGraph.tsx 56-61, 280-359  *)
(***************************************************************************)
(* The eventTypes prop the surrounding page passes in.                     *)
EventTypes ==
    <<[id |-> "transfer", eventName |-> "Transfer", contractType |-> "token"],
      [id |-> "mint", eventName |-> "Minted", contractType |-> "token"]>>
EventIds == {EventTypes[i].id : i \in DOMAIN EventTypes}

(* eventTypes.find(event => event.id === selectedEvent) || {id: "", ...}   *)
selectedEventFound(eventTypes, selected) ==
    LET hits == {i \in DOMAIN eventTypes : eventTypes[i].id = selected}
    IN  IF hits = {}
        THEN [id |-> "", eventName |-> "", contractType |-> ""]
        ELSE eventTypes[CHOOSE i \in hits : \A j \in hits : i <= j]

(* A row of raw_events as the query returns it.                            *)
RawEvent(ts, eventName, contractType) ==
    [block_timestamp |-> ts, event_name |-> eventName,
     contract_name |-> contractType]

(* where: {event_name: {_eq: ...}, contract_name: {_eq: ...}, ...}         *)
RowsOfEvent(rows, found) ==
    LET hit(row) == /\ row.event_name = found.eventName
                    /\ row.contract_name = found.contractType
    IN  SelectSeq(rows, hit)

(* A fetch loop that was not called yet.                                   *)
LoopNotStarted == [allEvents |-> <<>>, offset |-> 0, hasMore |-> FALSE]

(* fetchData is called: the closure holds the selection of the render      *)
(* that ran the effect, and the first loop (last 30 minutes) has its       *)
(* first request out.                                                      *)
passStart(found, timeRange, selectedDate) ==
    [event        |-> found,
     timeRange    |-> timeRange,
     selectedDate |-> selectedDate,
     pc           |-> "last30",
     last30       |-> eventsLoopStart,
     ranges       |-> [currentStart |-> Undefined, currentEnd |-> Undefined,
                       previousStart |-> Undefined, previousEnd |-> Undefined],
     current      |-> LoopNotStarted,
     previous     |-> LoopNotStarted,
     failures     |-> 0]

(* The first loop has returned: the ranges are computed and both period    *)
(* loops are called, one after the other, before Promise.all is awaited.   *)
passStartPeriods(z, ts, pass) ==
    [pass EXCEPT !.pc = "periods",
                 !.ranges = queryRanges(z, ts, pass.timeRange, pass.selectedDate),
                 !.current = eventsLoopStart,
                 !.previous = eventsLoopStart]

(* Faulty variant: bucketing goes ahead as soon as the current-period      *)
(* loop has returned.                                                      *)
promiseAllResolved_CurrentOnly(pass) ==
    pass.pc = "periods" /\ ~pass.current.hasMore

(* Faulty variant: a rejected request keeps the pass from ever resuming.   *)
promiseAllResolved_NeedsSuccess(pass) ==
    /\ pass.pc = "periods" /\ ~pass.current.hasMore /\ ~pass.previous.hasMore
    /\ pass.failures = 0

(* await Promise.all([...]) resumes: both loops have returned.             *)
promiseAllResolved(pass) ==
    pass.pc = "periods" /\ ~pass.current.hasMore /\ ~pass.previous.hasMore

(***************************************************************************)
(* ArtistsTable: search filter, sort and pages      part_000 120-182       *)
(* A text is a sequence of one-character strings.                          *)
(***************************************************************************)
(* A text field the row does not have (undefined), and one the server     *)
(* sent as null.                                                           *)
NoText == <<"undefined">>
NullText == <<"null">>

(* The text columns of the remote rows, by id: a row with a name and a     *)
(* slug and no tagline field, a row that also has a tagline, a row whose   *)
(* three fields are null.                                                  *)
ArtistTexts ==
    <<[artistName |-> <<"A", "n", "a">>, slug |-> <<"a", "n", "a">>,
       tagline |-> NoText],
      [artistName |-> <<"B", "o">>, slug |-> <<"b", "o">>,
       tagline |-> <<"D", "J">>],
      [artistName |-> NullText, slug |-> NullText, tagline |-> NullText]>>
artistText(artist) == ArtistTexts[((artist.id - 1) % Len(ArtistTexts)) + 1]

(* String.prototype.toLowerCase on the letters the samples use.            *)
LowerCaseOf == ("A" :> "a") @@ ("B" :> "b") @@ ("D" :> "d") @@ ("J" :> "j")
toLowerCase(text) ==
    [i \in DOMAIN text |->
        IF text[i] \in DOMAIN LowerCaseOf THEN LowerCaseOf[text[i]] ELSE text[i]]
    \o <<>>

(* String.prototype.includes                                               *)
includes(text, term) ==
    \E i \in 1..(Len(text) - Len(term) + 1) :
        SubSeq(text, i, i + Len(term) - 1) = term

(* const filtered = artists.filter(artist =>                               *)
(*   artist.artistName?.toLowerCase().includes(...) || artist.slug?...     *)
(*   || artist.tagline?...)                                                *)
filtered(list, term) ==
    LET has(text) == text \notin {NoText, NullText}
                     /\ includes(toLowerCase(text), toLowerCase(term))
        hit(artist) == \/ has(artistText(artist).artistName)
                       \/ has(artistText(artist).slug)
                       \/ has(artistText(artist).tagline)
    IN  SelectSeq(list, hit)

(* The UTF-16 code units of the letters the samples use: `<` on two       *)
(* strings compares them code unit by code unit.                           *)
CodeUnit ==
    ("A" :> 65) @@ ("B" :> 66) @@ ("D" :> 68) @@ ("J" :> 74) @@ ("a" :> 97)
    @@ ("b" :> 98) @@ ("d" :> 100) @@ ("j" :> 106) @@ ("n" :> 110)
    @@ ("o" :> 111) @@ ("z" :> 122)
lessText(s, t) ==
    \E i \in 1..Len(t) :
        /\ i <= Len(s) + 1
        /\ SubSeq(s, 1, i - 1) = SubSeq(t, 1, i - 1)
        /\ (i > Len(s) \/ CodeUnit[s[i]] < CodeUnit[t[i]])

(* The comparator of filtered.sort((a, b) => ...) for the two fields a     *)
(* header sorts by.  createdAt is compared as new Date(...).getTime(); an  *)
(* invalid date compares equal to everything.  Two artistName strings are  *)
(* compared in lower case; an undefined value goes last in both            *)
(* directions; null is not undefined and not a string, and `<` and `>`     *)
(* between null (the number 0) and a text without digits (NaN, or 0 for    *)
(* the empty text) or null are both false.                                 *)
compareArtists(a, b, field, direction) ==
    LET isDate == field = "createdAt"
        isString(text) == text \notin {NoText, NullText}
        bothStrings == /\ isString(artistText(a).artistName)
                       /\ isString(artistText(b).artistName)
        aValue == IF isDate THEN ParseIsoDate(a.createdAt)
                  ELSE IF bothStrings THEN toLowerCase(artistText(a).artistName)
                  ELSE artistText(a).artistName
        bValue == IF isDate THEN ParseIsoDate(b.createdAt)
                  ELSE IF bothStrings THEN toLowerCase(artistText(b).artistName)
                  ELSE artistText(b).artistName
        less(x, y) == IF isDate THEN ~IsNaN(x) /\ ~IsNaN(y) /\ x < y
                      ELSE bothStrings /\ lessText(x, y)
    IN  IF ~isDate /\ aValue = NoText /\ bValue = NoText THEN 0
        ELSE IF ~isDate /\ aValue = NoText THEN 1
        ELSE IF ~isDate /\ bValue = NoText THEN 0 - 1
        ELSE IF less(aValue, bValue) THEN (IF direction = "asc" THEN 0 - 1 ELSE 1)
        ELSE IF less(bValue, aValue) THEN (IF direction = "asc" THEN 1 ELSE 0 - 1)
        ELSE 0

(* filteredAndSortedArtists: the filtered rows, sorted (the sort is        *)
(* stable).                                                                *)
filteredAndSortedArtists(list, term, field, direction) ==
    LET rows == filtered(list, term)
        before(i, j) ==
            LET c == compareArtists(rows[i], rows[j], field, direction)
            IN  IF c = 0 THEN i < j ELSE c < 0
        rank == [i \in DOMAIN rows |->
                    Cardinality({j \in DOMAIN rows : j # i /\ before(j, i)}) + 1]
                \o <<>>
    IN  [p \in DOMAIN rows |-> rows[CHOOSE i \in DOMAIN rows : rank[i] = p]]
        \o <<>>

(* filteredAndSortedArtists.slice(startIndex, startIndex + itemsPerPage):  *)
(* a negative index of slice counts from the end, both indices are         *)
(* clamped to 0..length, and the slice is empty unless from < to.          *)
paginatedArtists(sorted, page) ==
    LET startIndex == (page - 1) * itemsPerPage
        len        == Len(sorted)
        clamp(k)   == IF k < 0 THEN (IF len + k < 0 THEN 0 ELSE len + k)
                      ELSE IF k > len THEN len ELSE k
        from       == clamp(startIndex)
        to         == clamp(startIndex + itemsPerPage)
    IN  IF from < to THEN SubSeq(sorted, from + 1, to) ELSE <<>>

(* Math.ceil(filteredAndSortedArtists.length / itemsPerPage)               *)
totalPages(sorted) == (Len(sorted) + itemsPerPage - 1) \div itemsPerPage

(***************************************************************************)
(* State.                                                                  *)
(***************************************************************************)
VARIABLES
    \* environment
    tz,              \* the browser's time zone
    clock,           \* the wall clock, seconds since the epoch
    dateParse,       \* what the engine's Date parser does with a label
    \* EventGraph: one aggregation pass (fetchData)
    timeStamps,      \* the memoised timeStamps object
    timeRange,       \* "day" | "week" | "month"
    selectedDate,    \* the reference date, or NoDate
    ranges,          \* currentStart/currentEnd/previousStart/previousEnd
    currentEvents,   \* records fetched for the current period
    previousEvents,  \* records fetched for the previous period
    counts,          \* the current-period Bucket Map being built
    previousCounts,  \* the previous-period Bucket Map being built
    pc,              \* position inside fetchData
    idx,             \* position of events.forEach
    \* EventGraph: what the chart and the stat card are rendered from
    eventCounts,          \* the eventCounts state cell
    previousEventCounts,  \* the previousEventCounts state cell
    shownChart,           \* chartData of the last render
    shownTotals,          \* totals of the last render
    \* EventGraph: the view and its aggregation passes in flight
    selectedEvent,        \* the selectedEvent state cell (an event id or "")
    isLoading,            \* the isLoading state cell of the chart
    last30MinCount,       \* the last30MinCount state cell
    passes,               \* the fetchData calls so far, in order of start
    writers,              \* which pass last wrote each group of cells
    passBudget,           \* how many more passes the scenario starts
    \* EventGraph: one call of fetchEventsWithPagination
    serverEvents,    \* the rows of the remote raw_events collection
    evArgs,          \* startTime / endTime of the call
    evLoop,          \* allEvents / offset / hasMore
    evPc,            \* "idle" | "loop" | "returned"
    evRequests,      \* the offsets requested so far, in order
    evFailed,        \* whether a request of the call was rejected
    \* ArtistsTable
    serverArtists,   \* the rows of the remote Artists collection
    artists,         \* the artists state cell
    artistsLoading,  \* the isLoading state cell of the table
    arLoop,          \* allArtists / page / hasMore
    arPc,            \* "unmounted" | "idle" | "loop"
    arRequests,      \* the pages requested by the running or last load
    arOutcome,       \* how the last load ended: "none" | "ok" | "failed"
    arBefore,        \* the artists cell when the running or last load began
    loads,           \* number of loads started
    searchTerm,      \* the searchTerm state cell
    sortField,       \* the sortField state cell
    sortDirection,   \* "asc" | "desc"
    currentPage      \* the currentPage state cell

envVars == <<tz, clock, dateParse>>
passVars ==
    <<timeStamps, timeRange, selectedDate, ranges,
      currentEvents, previousEvents, counts, previousCounts, pc, idx>>
chartVars == <<eventCounts, previousEventCounts, shownChart, shownTotals>>
viewVars ==
    <<selectedEvent, isLoading, last30MinCount, passes, writers, passBudget>>
eventPagerVars == <<serverEvents, evArgs, evLoop, evPc, evRequests, evFailed>>
artistVars ==
    <<serverArtists, artists, artistsLoading, arLoop, arPc, arRequests,
      arOutcome, arBefore, loads>>

tableVars == <<searchTerm, sortField, sortDirection, currentPage>>

vars ==
    <<envVars, passVars, chartVars, viewVars, eventPagerVars, artistVars,
      tableVars>>

(* The parts of the state a specification does not exercise.               *)
NoRanges ==
    [currentStart |-> Undefined, currentEnd |-> Undefined,
     previousStart |-> Undefined, previousEnd |-> Undefined]

PassIdle ==
    /\ timeStamps = timeStampsAt(clock)
    /\ timeRange = TIME_RANGES.WEEK
    /\ selectedDate = ToIsoDate(clock)
    /\ ranges = NoRanges
    /\ currentEvents = <<>>
    /\ previousEvents = <<>>
    /\ counts = EmptyMap
    /\ previousCounts = EmptyMap
    /\ pc = "idle"
    /\ idx = 0

(* useState({}) twice, and the first render from the empty maps.          *)
ChartIdle ==
    /\ eventCounts = EmptyMap
    /\ previousEventCounts = EmptyMap
    /\ shownChart = <<>>
    /\ shownTotals = totals(EmptyMap, EmptyMap)

(* The cells of a view in which no event was selected yet.                *)
NoWriters == [maps |-> 0, last30 |-> 0]
ViewIdle ==
    /\ selectedEvent = ""
    /\ isLoading = FALSE
    /\ last30MinCount = 0
    /\ passes = <<>>
    /\ writers = NoWriters
    /\ passBudget = 0

(* useState(""), useState("createdAt"), useState("desc"), useState(1)     *)
TableStart ==
    /\ searchTerm = <<>>
    /\ sortField = "createdAt"
    /\ sortDirection = "desc"
    /\ currentPage = 1

EventPagerIdle ==
    /\ serverEvents = <<>>
    /\ evArgs = [startTime |-> 0, endTime |-> Undefined]
    /\ evLoop = eventsLoopStart
    /\ evPc = "idle"
    /\ evRequests = <<>>
    /\ evFailed = FALSE

ArtistsIdle ==
    /\ serverArtists = <<>>
    /\ artists = <<>>
    /\ artistsLoading = TRUE
    /\ arLoop = artistsLoopStart
    /\ arPc = "unmounted"
    /\ arRequests = <<>>
    /\ arOutcome = "none"
    /\ arBefore = <<>>
    /\ loads = 0
    /\ TableStart

(***************************************************************************)
(* Inputs of the aggregation specification.                                *)
(***************************************************************************)
MaxEvents == 2

(* Wall clocks: 2025-10-29 14:20Z, an ordinary day; 2026-01-03 09:10Z, the  *)
(* periods span the turn of the year; 2025-10-26 22:30Z, 23:30 in Berlin   *)
(* on the day the clocks go back; 2025-11-03 04:30Z, 23:30 in New York on  *)
(* the day the clocks go back there.                                       *)
ClockOrdinary == UtcInstant(2025, 10, 29, 14, 20)
ClockNewYear == UtcInstant(2026, 1, 3, 9, 10)
ClockBerlinFallBack == UtcInstant(2025, 10, 26, 22, 30)
ClockNewYorkFallBack == UtcInstant(2025, 11, 3, 4, 30)

ZoneClocks ==
    {<<ZoneUTC, ClockOrdinary>>, <<ZoneUTC, ClockNewYear>>,
     <<ZoneBerlin, ClockBerlinFallBack>>,
     <<ZoneNewYork, ClockNewYorkFallBack>>, <<ZoneNewYork, ClockOrdinary>>}

(* Reference dates: an ordinary day; the cleared date input; 2025-03-30,   *)
(* when the clocks go forward in Berlin; 2025-10-27 and 2025-11-04, whose  *)
(* previous day has 25 hours in Berlin and in New York.                    *)
ZoneDates ==
    {<<ZoneUTC, IsoDate(2025, 10, 29)>>, <<ZoneUTC, NoDate>>,
     <<ZoneBerlin, IsoDate(2025, 3, 30)>>, <<ZoneBerlin, IsoDate(2025, 10, 27)>>,
     <<ZoneNewYork, IsoDate(2025, 11, 4)>>}

(* How long the view has been open when the pass starts (the long-open    *)
(* view is sampled in one zone: the age only shifts the memoised cut-offs).*)
MountAges == {0, 2 * DaySeconds}
ZoneAges(z) == IF z = ZoneUTC THEN MountAges ELSE {0}

PassConfigs ==
    UNION {{[z |-> zd[1], clock |-> ClockOrdinary, timeRange |-> TIME_RANGES.DAY,
             selectedDate |-> zd[2], age |-> a] : a \in ZoneAges(zd[1])} :
           zd \in ZoneDates}
    \cup
    UNION {{[z |-> zc[1], clock |-> zc[2], timeRange |-> r,
             selectedDate |-> ToIsoDate(zc[2]), age |-> a] :
                r \in {TIME_RANGES.WEEK, TIME_RANGES.MONTH}, a \in ZoneAges(zc[1])} :
           zc \in ZoneClocks}

(* Record timestamps around the anchor of the configuration: in the        *)
(* current period, in the previous period, outside both, missing, null.    *)
EventAnchor(cfg) ==
    LET start == getDateRange(cfg.z, cfg.selectedDate, 0).startOfDay
    IN  IF cfg.timeRange = TIME_RANGES.DAY /\ ~IsNaN(start)
        THEN start ELSE cfg.clock

CurrentSample(cfg) == BaseEvent(EventAnchor(cfg) + 7800)
PreviousSample(cfg) ==
    LET a == EventAnchor(cfg)
    IN  IF cfg.timeRange = TIME_RANGES.DAY THEN BaseEvent(a - 68400)
        ELSE IF cfg.timeRange = TIME_RANGES.WEEK
             THEN BaseEvent(a - 10 * DaySeconds)
             ELSE BaseEvent(a - 45 * DaySeconds)

(* What the current-period fetch may hold.                                 *)
EventSamples(cfg) ==
    LET a == EventAnchor(cfg)
    IN  {CurrentSample(cfg), BaseEvent(a - 68400), BaseEvent(a - 10 * DaySeconds),
         BaseEvent(NaN), BaseEvent(Null)}

(* What the previous-period fetch may hold.                                *)
PreviousEventSamples(cfg) ==
    {PreviousSample(cfg), CurrentSample(cfg), BaseEvent(NaN), BaseEvent(Null)}

SeqsUpTo(S, n) == UNION {[1..k -> S] : k \in 0..n}

(***************************************************************************)
(* The aggregation pass of fetchData from the point where the 30-minute    *)
(* fetch has resolved: the query ranges, then (the two period fetches      *)
(* having resolved with currentEvents and previousEvents)                  *)
(* initializeTimePeriodData and countEvents twice.                         *)
(***************************************************************************)
AggInit ==
    /\ \E cfg \in PassConfigs :
        /\ tz = cfg.z
        /\ clock = cfg.clock
        /\ timeStamps = timeStampsAt(cfg.clock - cfg.age)
        /\ timeRange = cfg.timeRange
        /\ selectedDate = cfg.selectedDate
        /\ currentEvents \in SeqsUpTo(EventSamples(cfg), MaxEvents)
        /\ previousEvents \in SeqsUpTo(PreviousEventSamples(cfg), 1)
    /\ ranges = NoRanges
    /\ counts = EmptyMap
    /\ previousCounts = EmptyMap
    /\ pc = "ranges"
    /\ idx = 0
    /\ dateParse = "year2001"
    /\ ChartIdle
    /\ ViewIdle
    /\ EventPagerIdle
    /\ ArtistsIdle

notPassVars ==
    <<envVars, chartVars, viewVars, eventPagerVars, artistVars, tableVars>>

(* let currentStart, currentEnd, previousStart, previousEnd; if ... else   *)
AggRanges ==
    /\ pc = "ranges"
    /\ ranges' = queryRanges(tz, timeStamps, timeRange, selectedDate)
    /\ pc' = "fetched"
    /\ UNCHANGED <<timeStamps, timeRange, selectedDate,
                   currentEvents, previousEvents, counts, previousCounts, idx>>
    /\ UNCHANGED notPassVars

(* const { counts, previousCounts } = initializeTimePeriodData(...)        *)
AggInitialize ==
    /\ pc = "fetched"
    /\ LET data == initializeTimePeriodData(tz, clock, timeRange, selectedDate)
       IN  /\ counts' = data.counts
           /\ previousCounts' = data.previousCounts
    /\ pc' = "countCurrent"
    /\ idx' = 1
    /\ UNCHANGED <<timeStamps, timeRange, selectedDate, ranges,
                   currentEvents, previousEvents>>
    /\ UNCHANGED notPassVars

(* countEvents(currentEvents, counts, timeRange): one forEach iteration    *)
AggCountCurrent ==
    /\ pc = "countCurrent"
    /\ idx <= Len(currentEvents)
    /\ counts' = countEvent(tz, currentEvents[idx], counts, timeRange)
    /\ idx' = idx + 1
    /\ UNCHANGED <<timeStamps, timeRange, selectedDate, ranges,
                   currentEvents, previousEvents, previousCounts, pc>>
    /\ UNCHANGED notPassVars

AggCurrentCounted ==
    /\ pc = "countCurrent"
    /\ idx > Len(currentEvents)
    /\ pc' = "countPrevious"
    /\ idx' = 1
    /\ UNCHANGED <<timeStamps, timeRange, selectedDate, ranges,
                   currentEvents, previousEvents, counts, previousCounts>>
    /\ UNCHANGED notPassVars

(* countEvents(previousEvents, previousCounts, timeRange)                  *)
AggCountPrevious ==
    /\ pc = "countPrevious"
    /\ idx <= Len(previousEvents)
    /\ previousCounts' = countEvent(tz, previousEvents[idx], previousCounts, timeRange)
    /\ idx' = idx + 1
    /\ UNCHANGED <<timeStamps, timeRange, selectedDate, ranges,
                   currentEvents, previousEvents, counts, pc>>
    /\ UNCHANGED notPassVars

AggPreviousCounted ==
    /\ pc = "countPrevious"
    /\ idx > Len(previousEvents)
    /\ pc' = "counted"
    /\ idx' = 0
    /\ UNCHANGED <<timeStamps, timeRange, selectedDate, ranges,
                   currentEvents, previousEvents, counts, previousCounts>>
    /\ UNCHANGED notPassVars

AggNext ==
    \/ AggRanges
    \/ AggInitialize
    \/ AggCountCurrent
    \/ AggCurrentCounted
    \/ AggCountPrevious
    \/ AggPreviousCounted

SpecAggregate == AggInit /\ [][AggNext]_vars

(***************************************************************************)
(* The pass followed to the render: the two maps are published to the     *)
(* state cells and the chart and the totals are recomputed from them.      *)
(* The fetched lists are bursts of one in-period record each, so that the  *)
(* totals take the values 0, 5, 50 and 100.                                *)
(***************************************************************************)
CurrentBursts == {0, 5, 50}
PreviousBursts == {0, 5, 100}

Replicate(e, n) == [i \in 1..n |-> e]

RenderInit ==
    /\ \E cfg \in PassConfigs :
        /\ tz = cfg.z
        /\ clock = cfg.clock
        /\ timeStamps = timeStampsAt(cfg.clock - cfg.age)
        /\ timeRange = cfg.timeRange
        /\ selectedDate = cfg.selectedDate
        /\ \E n \in CurrentBursts : currentEvents = Replicate(CurrentSample(cfg), n)
        /\ \E n \in PreviousBursts : previousEvents = Replicate(PreviousSample(cfg), n)
    /\ dateParse \in DateParses
    /\ ranges = NoRanges
    /\ counts = EmptyMap
    /\ previousCounts = EmptyMap
    /\ pc = "ranges"
    /\ idx = 0
    /\ ChartIdle
    /\ ViewIdle
    /\ EventPagerIdle
    /\ ArtistsIdle

(* setPreviousEventCounts(previousCounts); setEventCounts(counts); and the *)
(* render that follows: chartData and totals recomputed from the cells.    *)
AggPublish ==
    /\ pc = "counted"
    /\ eventCounts' = counts
    /\ previousEventCounts' = previousCounts
    /\ shownChart' = chartData(tz, clock, dateParse, timeRange, counts, previousCounts)
    /\ shownTotals' = totals(counts, previousCounts)
    /\ pc' = "published"
    /\ UNCHANGED <<timeStamps, timeRange, selectedDate, ranges,
                   currentEvents, previousEvents, counts, previousCounts, idx>>
    /\ UNCHANGED <<envVars, viewVars, eventPagerVars, artistVars, tableVars>>

RenderNext ==
    \/ AggRanges
    \/ AggInitialize
    \/ AggCountCurrent
    \/ AggCurrentCounted
    \/ AggCountPrevious
    \/ AggPreviousCounted
    \/ AggPublish

SpecRender == RenderInit /\ [][RenderNext]_vars

(***************************************************************************)
(* The two pagers.  Either one call of fetchEventsWithPagination runs, or  *)
(* the artists table is mounted and loads (and reloads on Refresh).  The   *)
(* remote collection does not change while a loop pages through it.        *)
(***************************************************************************)
MaxLoads == 2

(* The first block_timestamp of the remote rows: 2025-10-29 00:00Z.        *)
RowEpoch == UtcInstant(2025, 10, 29, 0, 0)
EventRows(n) == [i \in 1..n |-> BaseEvent(RowEpoch + i)]
EventRowCounts == {0, 1, 999, 1000, 1001, 2000, 2001}
EventCallArgs ==
    {[startTime |-> st, endTime |-> en] :
        st \in {RowEpoch, RowEpoch + 500}, en \in {Undefined, RowEpoch + 1600}}

(* The remote rows: row i was created on the i-th day of 2025.             *)
Artist(i) ==
    [id |-> i, createdAt |-> CivilFromDays(DaysFromCivil(2025, 1, 1) + i - 1)]
ArtistRows(n) == [i \in 1..n |-> Artist(i)]
ArtistRowCounts == {0, 1, 100, 101, 250}

notPagerVars == <<envVars, passVars, chartVars, viewVars, tableVars>>

PagerInit ==
    /\ tz = ZoneUTC
    /\ clock = ClockOrdinary
    /\ dateParse = "year2001"
    /\ PassIdle
    /\ ChartIdle
    /\ ViewIdle
    /\ \/ /\ \E n \in EventRowCounts : serverEvents = EventRows(n)
          /\ evArgs \in EventCallArgs
          /\ evLoop = eventsLoopStart
          /\ evPc = "loop"
          /\ evRequests = <<>>
          /\ evFailed = FALSE
          /\ ArtistsIdle
       \/ /\ EventPagerIdle
          /\ \E n \in ArtistRowCounts : serverArtists = ArtistRows(n)
          /\ artists = <<>>
          /\ artistsLoading = TRUE
          /\ arLoop = artistsLoopStart
          /\ arPc = "idle"
          /\ arRequests = <<>>
          /\ arOutcome = "none"
          /\ arBefore = <<>>
          /\ loads = 0
          /\ TableStart

(* One turn of the while loop whose request resolves; when the loop ends   *)
(* the function returns allEvents.                                         *)
EventsPageArrives ==
    /\ evPc = "loop"
    /\ evLoop.hasMore
    /\ LET events == eventsPage(serverEvents, evArgs, evLoop.offset)
           next   == eventsOnPage(evLoop, events)
       IN  /\ evLoop' = next
           /\ evPc' = IF next.hasMore THEN "loop" ELSE "returned"
    /\ evRequests' = Append(evRequests, evLoop.offset)
    /\ UNCHANGED <<serverEvents, evArgs, evFailed>>
    /\ UNCHANGED <<notPagerVars, artistVars>>

(* One turn of the while loop whose request is rejected.                   *)
EventsRequestFails ==
    /\ evPc = "loop"
    /\ evLoop.hasMore
    /\ LET next == eventsOnError(evLoop)
       IN  /\ evLoop' = next
           /\ evPc' = IF next.hasMore THEN "loop" ELSE "returned"
    /\ evRequests' = Append(evRequests, evLoop.offset)
    /\ evFailed' = TRUE
    /\ UNCHANGED <<serverEvents, evArgs>>
    /\ UNCHANGED <<notPagerVars, artistVars>>

(* fetchAllArtists is called: by the mount effect, or by the Refresh       *)
(* button, which is rendered only while isLoading is false.                *)
ArtistsLoadStartsOn(rowCounts) ==
    /\ arPc = "idle"
    /\ loads < MaxLoads
    /\ loads = 0 \/ ~artistsLoading
    /\ \E n \in rowCounts : serverArtists' = ArtistRows(n)
    /\ loads = 0 => serverArtists' = serverArtists
    /\ artistsLoading' = TRUE
    /\ arLoop' = artistsLoopStart
    /\ arPc' = "loop"
    /\ arRequests' = <<>>
    /\ arOutcome' = "none"
    /\ arBefore' = artists
    /\ loads' = loads + 1
    /\ UNCHANGED artists
    /\ UNCHANGED <<notPagerVars, eventPagerVars>>

ArtistsLoadStarts == ArtistsLoadStartsOn(ArtistRowCounts)

(* One turn of the while loop whose request resolves; after the last page  *)
(* setArtists(allArtists) and, in finally, setIsLoading(false).            *)
ArtistsPageArrives ==
    /\ arPc = "loop"
    /\ LET next == artistsOnPage(arLoop, artistsPage(serverArtists, arLoop.page))
       IN  /\ arLoop' = next
           /\ IF next.hasMore
              THEN UNCHANGED <<artists, artistsLoading, arPc, arOutcome>>
              ELSE /\ artists' = artistsOnSuccess(artists, next)
                   /\ artistsLoading' = FALSE
                   /\ arPc' = "idle"
                   /\ arOutcome' = "ok"
    /\ arRequests' = Append(arRequests, arLoop.page)
    /\ UNCHANGED <<serverArtists, arBefore, loads>>
    /\ UNCHANGED <<notPagerVars, eventPagerVars>>

(* A request is rejected: catch logs, finally sets isLoading to false.     *)
ArtistsRequestFails ==
    /\ arPc = "loop"
    /\ artists' = artistsOnError(artists, arLoop)
    /\ artistsLoading' = FALSE
    /\ arPc' = "idle"
    /\ arOutcome' = "failed"
    /\ arRequests' = Append(arRequests, arLoop.page)
    /\ UNCHANGED <<serverArtists, arLoop, arBefore, loads>>
    /\ UNCHANGED <<notPagerVars, eventPagerVars>>

PagerNext ==
    \/ EventsPageArrives
    \/ EventsRequestFails
    \/ ArtistsLoadStarts
    \/ ArtistsPageArrives
    \/ ArtistsRequestFails

SpecPager == PagerInit /\ [][PagerNext]_vars

(***************************************************************************)
(* The artists table in use: the collection is loaded and reloaded, and    *)
(* while the table is on screen (isLoading false) the user types in the    *)
(* search box, clicks the two sortable headers and the page buttons.       *)
(***************************************************************************)
(* The sizes of the remote collection: none, one page of the table, four   *)
(* pages of which three match the empty search.                            *)
TableRowCounts == {0, 1, 12, 31}

(* What the user types: nothing, a term one row matches, a term no row     *)
(* matches.                                                                *)
SearchTerms == {<<>>, <<"D", "j">>, <<"z", "z">>}

(* onClick={() => handleSort("artistName")} and handleSort("createdAt")    *)
SortableFields == {"artistName", "createdAt"}

TableInit ==
    /\ tz = ZoneUTC
    /\ clock = ClockOrdinary
    /\ dateParse = "year2001"
    /\ PassIdle
    /\ ChartIdle
    /\ ViewIdle
    /\ EventPagerIdle
    /\ \E n \in TableRowCounts : serverArtists = ArtistRows(n)
    /\ artists = <<>>
    /\ artistsLoading = TRUE
    /\ arLoop = artistsLoopStart
    /\ arPc = "idle"
    /\ arRequests = <<>>
    /\ arOutcome = "none"
    /\ arBefore = <<>>
    /\ loads = 0
    /\ TableStart

(* if (isLoading) return <Loader />: the controls exist only otherwise.    *)
tableShown == arPc = "idle" /\ ~artistsLoading

(* The rows the table holds for the current search and sort.               *)
shownArtists ==
    filteredAndSortedArtists(artists, searchTerm, sortField, sortDirection)

notTableVars ==
    <<envVars, passVars, chartVars, viewVars, eventPagerVars, artistVars>>

(* onChange of the search input: setSearchTerm(value); setCurrentPage(1)   *)
SearchChanges(term) ==
    /\ tableShown
    /\ term # searchTerm
    /\ searchTerm' = term
    /\ currentPage' = 1
    /\ UNCHANGED <<sortField, sortDirection>>
    /\ UNCHANGED notTableVars

handleSort(field) ==
    /\ tableShown
    /\ IF sortField = field
       THEN /\ sortDirection' = IF sortDirection = "asc" THEN "desc" ELSE "asc"
            /\ UNCHANGED sortField
       ELSE /\ sortField' = field
            /\ sortDirection' = "asc"
    /\ currentPage' = 1
    /\ UNCHANGED searchTerm
    /\ UNCHANGED notTableVars

(* Previous: disabled={currentPage === 1}                                  *)
PreviousClicked ==
    /\ tableShown
    /\ currentPage # 1
    /\ currentPage' = IF currentPage - 1 > 1 THEN currentPage - 1 ELSE 1
    /\ UNCHANGED <<searchTerm, sortField, sortDirection>>
    /\ UNCHANGED notTableVars

(* Next: disabled={currentPage === totalPages}                             *)
NextClicked ==
    /\ tableShown
    /\ currentPage # totalPages(shownArtists)
    /\ currentPage' = Min(totalPages(shownArtists), currentPage + 1)
    /\ UNCHANGED <<searchTerm, sortField, sortDirection>>
    /\ UNCHANGED notTableVars

TableNext ==
    \/ ArtistsLoadStartsOn(TableRowCounts)
    \/ ArtistsPageArrives
    \/ ArtistsRequestFails
    \/ \E term \in SearchTerms : SearchChanges(term)
    \/ \E field \in SortableFields : handleSort(field)
    \/ PreviousClicked
    \/ NextClicked

SpecTable == TableInit /\ [][TableNext]_vars

(***************************************************************************)
(* The chart view with its aggregation passes: the user changes the        *)
(* selection, every change with an event selected calls fetchData, and     *)
(* the calls run interleaved at their awaits.  A response is handled       *)
(* together with everything fetchData does until its next await.           *)
(***************************************************************************)
MaxPasses == 2

(* The remote rows, in block_timestamp order, relative to the wall clock:  *)
(* ten days ago, yesterday, three days ago, and within the last half hour. *)
ViewRows(now) ==
    <<RawEvent(now - 10 * DaySeconds, "Transfer", "token"),
      RawEvent(now - 3 * DaySeconds, "Minted", "token"),
      RawEvent(now - 26 * HourSeconds, "Transfer", "token"),
      RawEvent(now - 900, "Minted", "token"),
      RawEvent(now - 600, "Transfer", "token")>>

(* The modes the user switches between in the time range select.           *)
ViewRanges == {TIME_RANGES.DAY, TIME_RANGES.WEEK}

(* The date the user picks in the date input: yesterday.                   *)
ViewDates(now) == {ToIsoDate(now - DaySeconds)}

ViewStart(z, now, age, rows, budget) ==
    /\ tz = z
    /\ clock = now
    /\ dateParse = "year2001"
    /\ timeStamps = timeStampsAt(now - age)
    /\ timeRange = TIME_RANGES.WEEK
    /\ selectedDate = ToIsoDate(now - age)
    /\ ranges = NoRanges
    /\ currentEvents = <<>>
    /\ previousEvents = <<>>
    /\ counts = EmptyMap
    /\ previousCounts = EmptyMap
    /\ pc = "idle"
    /\ idx = 0
    /\ ChartIdle
    /\ selectedEvent = ""
    /\ isLoading = FALSE
    /\ last30MinCount = 0
    /\ passes = <<>>
    /\ writers = NoWriters
    /\ passBudget = budget
    /\ serverEvents = rows
    /\ evArgs = [startTime |-> 0, endTime |-> Undefined]
    /\ evLoop = eventsLoopStart
    /\ evPc = "idle"
    /\ evRequests = <<>>
    /\ evFailed = FALSE
    /\ ArtistsIdle

ViewInit == ViewStart(ZoneUTC, ClockOrdinary, 0, ViewRows(ClockOrdinary), MaxPasses)

notViewVars ==
    <<envVars, timeStamps, ranges, currentEvents, previousEvents, counts,
      previousCounts, pc, idx, eventPagerVars, artistVars, tableVars>>

(* Faulty variant: the effect calls fetchData whether or not an event is   *)
(* selected.                                                               *)
RunEffect_NoGuard(selected, range, date) ==
    /\ passBudget > 0
    /\ passes' = Append(passes,
                        passStart(selectedEventFound(EventTypes, selected),
                                  range, date))
    /\ isLoading' = TRUE
    /\ passBudget' = passBudget - 1

(* The effect of lines 280-359 after a render with a changed dependency:   *)
(* nothing without a selected event, otherwise fetchData() is called and   *)
(* runs to its first await.                                                *)
RunEffect(selected, range, date) ==
    LET found == selectedEventFound(EventTypes, selected)
    IN  IF found.eventName = ""
        THEN UNCHANGED <<passes, isLoading, passBudget>>
        ELSE /\ passBudget > 0
             /\ passes' = Append(passes, passStart(found, range, date))
             /\ isLoading' = TRUE
             /\ passBudget' = passBudget - 1

(* chartData is recomputed when eventCounts, previousEventCounts or        *)
(* timeRange changed; totals when one of the two maps changed.             *)
Rerender(range, current, previous) ==
    /\ IF <<range, current, previous>> =
             <<timeRange, eventCounts, previousEventCounts>>
       THEN UNCHANGED shownChart
       ELSE shownChart' =
                chartData(tz, clock, dateParse, range, current, previous)
    /\ IF <<current, previous>> = <<eventCounts, previousEventCounts>>
       THEN UNCHANGED shownTotals
       ELSE shownTotals' = totals(current, previous)

(* onChange of the event select: setSelectedEvent(e.target.value)          *)
UserSelectsEvent(e) ==
    /\ e # selectedEvent
    /\ selectedEvent' = e
    /\ RunEffect(e, timeRange, selectedDate)
    /\ UNCHANGED <<timeRange, selectedDate, eventCounts, previousEventCounts,
                   shownChart, shownTotals, last30MinCount, writers>>
    /\ UNCHANGED notViewVars

(* onChange of the time range select: setTimeRange(e.target.value)         *)
UserSelectsTimeRange(r) ==
    /\ r # timeRange
    /\ timeRange' = r
    /\ RunEffect(selectedEvent, r, selectedDate)
    /\ UNCHANGED <<eventCounts, previousEventCounts>>
    /\ Rerender(r, eventCounts, previousEventCounts)
    /\ UNCHANGED <<selectedEvent, selectedDate, last30MinCount, writers>>
    /\ UNCHANGED notViewVars

(* handleDateChange: setSelectedDate(e.target.value); setTimeRange(DAY)    *)
UserPicksDate(d) ==
    /\ d # selectedDate
    /\ selectedDate' = d
    /\ timeRange' = TIME_RANGES.DAY
    /\ RunEffect(selectedEvent, TIME_RANGES.DAY, d)
    /\ UNCHANGED <<eventCounts, previousEventCounts>>
    /\ Rerender(TIME_RANGES.DAY, eventCounts, previousEventCounts)
    /\ UNCHANGED <<selectedEvent, last30MinCount, writers>>
    /\ UNCHANGED notViewVars

(* The request arguments of the three loops of a pass.                     *)
last30Args(ts) == [startTime |-> ts.thirtyMinutesAgo, endTime |-> Undefined]
currentArgs(pass) ==
    [startTime |-> pass.ranges.currentStart, endTime |-> pass.ranges.currentEnd]
previousArgs(pass) ==
    [startTime |-> pass.ranges.previousStart, endTime |-> pass.ranges.previousEnd]

(* What the server answers to the request a loop has out.                  *)
pageFor(rows, pass, args, loop) ==
    eventsPage(RowsOfEvent(rows, pass.event), args, loop.offset)

(* The 30-minute loop took a turn: when it has returned,                   *)
(* setLast30MinCount(last30MinEvents.length) and on to the period loops.   *)
AfterLast30(p, pass) ==
    IF pass.last30.hasMore
    THEN /\ passes' = [passes EXCEPT ![p] = pass]
         /\ UNCHANGED <<last30MinCount, writers>>
    ELSE /\ passes' = [passes EXCEPT ![p] = passStartPeriods(tz, timeStamps, pass)]
         /\ last30MinCount' = Len(pass.last30.allEvents)
         /\ writers' = [writers EXCEPT !.last30 = p]

Last30Arrives(p) ==
    /\ passes[p].pc = "last30"
    /\ LET pass == passes[p]
           page == pageFor(serverEvents, pass, last30Args(timeStamps), pass.last30)
       IN  AfterLast30(p, [pass EXCEPT !.last30 = eventsOnPage(pass.last30, page)])
    /\ UNCHANGED <<selectedEvent, timeRange, selectedDate, isLoading, passBudget,
                   chartVars>>
    /\ UNCHANGED notViewVars

Last30Fails(p) ==
    /\ passes[p].pc = "last30"
    /\ LET pass == passes[p]
       IN  AfterLast30(p, [pass EXCEPT !.last30 = eventsOnError(pass.last30),
                                       !.failures = pass.failures + 1])
    /\ UNCHANGED <<selectedEvent, timeRange, selectedDate, isLoading, passBudget,
                   chartVars>>
    /\ UNCHANGED notViewVars

(* Faulty variant: when the buckets on display have the keys of the new    *)
(* pass, the records are counted on top of them.                           *)
bucketed_Incremental(z, now, pass) ==
    LET data == initializeTimePeriodData(z, now, pass.timeRange, pass.selectedDate)
        base(shown, zero) == IF MapKeys(shown) = MapKeys(zero) THEN shown ELSE zero
    IN  [counts         |-> countEvents(z, pass.current.allEvents,
                                        base(eventCounts, data.counts),
                                        pass.timeRange),
         previousCounts |-> countEvents(z, pass.previous.allEvents,
                                        base(previousEventCounts,
                                             data.previousCounts),
                                        pass.timeRange)]

(* initializeTimePeriodData and the two countEvents calls of fetchData.    *)
bucketed(z, now, pass) ==
    LET data == initializeTimePeriodData(z, now, pass.timeRange, pass.selectedDate)
    IN  [counts         |-> countEvents(z, pass.current.allEvents, data.counts,
                                        pass.timeRange),
         previousCounts |-> countEvents(z, pass.previous.allEvents,
                                        data.previousCounts, pass.timeRange)]

(* Faulty variant: a pass that is no longer the latest one is discarded    *)
(* when it completes.                                                      *)
AfterPeriod_LatestOnly(p, pass) ==
    IF promiseAllResolved(pass)
    THEN \E data \in {bucketed(tz, clock, pass)} :
             /\ passes' = [passes EXCEPT ![p] = [pass EXCEPT !.pc = "done"]]
             /\ isLoading' = FALSE
             /\ IF p = Len(passes)
                THEN /\ previousEventCounts' = data.previousCounts
                     /\ eventCounts' = data.counts
                     /\ Rerender(timeRange, eventCounts', previousEventCounts')
                     /\ writers' = [writers EXCEPT !.maps = p]
                ELSE UNCHANGED <<chartVars, writers>>
    ELSE /\ passes' = [passes EXCEPT ![p] = pass]
         /\ UNCHANGED <<chartVars, writers, isLoading>>

(* A period loop took a turn: when Promise.all resumes, the maps are       *)
(* built, counted and published, and the finally block clears isLoading.   *)
AfterPeriod(p, pass) ==
    IF promiseAllResolved(pass)
    THEN \E data \in {bucketed(tz, clock, pass)} :
             /\ passes' = [passes EXCEPT ![p] = [pass EXCEPT !.pc = "done"]]
             /\ previousEventCounts' = data.previousCounts
             /\ eventCounts' = data.counts
             /\ Rerender(timeRange, eventCounts', previousEventCounts')
             /\ writers' = [writers EXCEPT !.maps = p]
             /\ isLoading' = FALSE
    ELSE /\ passes' = [passes EXCEPT ![p] = pass]
         /\ UNCHANGED <<chartVars, writers, isLoading>>

CurrentArrives(p) ==
    /\ passes[p].pc = "periods"
    /\ passes[p].current.hasMore
    /\ LET pass == passes[p]
           page == pageFor(serverEvents, pass, currentArgs(pass), pass.current)
       IN  AfterPeriod(p, [pass EXCEPT !.current = eventsOnPage(pass.current, page)])
    /\ UNCHANGED <<selectedEvent, timeRange, selectedDate, last30MinCount, passBudget>>
    /\ UNCHANGED notViewVars

CurrentFails(p) ==
    /\ passes[p].pc = "periods"
    /\ passes[p].current.hasMore
    /\ LET pass == passes[p]
       IN  AfterPeriod(p, [pass EXCEPT !.current = eventsOnError(pass.current),
                                       !.failures = pass.failures + 1])
    /\ UNCHANGED <<selectedEvent, timeRange, selectedDate, last30MinCount, passBudget>>
    /\ UNCHANGED notViewVars

PreviousArrives(p) ==
    /\ passes[p].pc = "periods"
    /\ passes[p].previous.hasMore
    /\ LET pass == passes[p]
           page == pageFor(serverEvents, pass, previousArgs(pass), pass.previous)
       IN  AfterPeriod(p, [pass EXCEPT !.previous = eventsOnPage(pass.previous, page)])
    /\ UNCHANGED <<selectedEvent, timeRange, selectedDate, last30MinCount, passBudget>>
    /\ UNCHANGED notViewVars

PreviousFails(p) ==
    /\ passes[p].pc = "periods"
    /\ passes[p].previous.hasMore
    /\ LET pass == passes[p]
       IN  AfterPeriod(p, [pass EXCEPT !.previous = eventsOnError(pass.previous),
                                       !.failures = pass.failures + 1])
    /\ UNCHANGED <<selectedEvent, timeRange, selectedDate, last30MinCount, passBudget>>
    /\ UNCHANGED notViewVars

(* The view while every request is answered.                               *)
ViewNext ==
    \/ \E e \in EventIds : UserSelectsEvent(e)
    \/ \E r \in ViewRanges : UserSelectsTimeRange(r)
    \/ \E d \in ViewDates(clock) : UserPicksDate(d)
    \/ \E p \in DOMAIN passes : Last30Arrives(p)
    \/ \E p \in DOMAIN passes : CurrentArrives(p)
    \/ \E p \in DOMAIN passes : PreviousArrives(p)

SpecView == ViewInit /\ [][ViewNext]_vars

(***************************************************************************)
(* The view and the artists table while requests may be rejected.  Every   *)
(* request that is out is eventually answered or rejected.                 *)
(***************************************************************************)
FaultInit ==
    \/ ViewStart(ZoneUTC, ClockOrdinary, 0, ViewRows(ClockOrdinary), MaxPasses - 1)
    \/ PagerInit

FaultNext ==
    \/ ViewNext
    \/ \E p \in DOMAIN passes : Last30Fails(p)
    \/ \E p \in DOMAIN passes : CurrentFails(p)
    \/ \E p \in DOMAIN passes : PreviousFails(p)
    \/ PagerNext

(* A loop of the pass has a request out.                                   *)
requestOut(pass) ==
    \/ pass.pc = "last30" /\ pass.last30.hasMore
    \/ pass.pc = "periods" /\ (pass.current.hasMore \/ pass.previous.hasMore)

(* Weak fairness of the steps of pass p, with their enabling condition     *)
(* written out: a request that is out is answered or rejected.             *)
PassSettles(p) ==
    \/ []<>(p \notin DOMAIN passes \/ ~requestOut(passes[p]))
    \/ []<><<p \in DOMAIN passes /\ passes'[p] # passes[p]>>_vars

RequestsSettle ==
    /\ \A p \in 1..MaxPasses : PassSettles(p)
    /\ WF_vars(EventsPageArrives \/ EventsRequestFails)
    /\ WF_vars(ArtistsPageArrives \/ ArtistsRequestFails)

SpecFaults == FaultInit /\ [][FaultNext]_vars /\ RequestsSettle

(***************************************************************************)
(* The view on the end-to-end scenario: one selection at a time, in three  *)
(* zones, freshly mounted or open for an hour; in Berlin on the days the   *)
(* clocks go back and (2025-03-30, 12:00Z) forward.                        *)
(***************************************************************************)
ScenarioClocks ==
    {<<ZoneUTC, ClockOrdinary>>, <<ZoneNewYork, ClockOrdinary>>,
     <<ZoneBerlin, ClockBerlinFallBack>>,
     <<ZoneBerlin, UtcInstant(2025, 3, 30, 12, 0)>>}
ScenarioAges == {0, HourSeconds}

(* The instant of hour h, minute mm of the local calendar day `date`.      *)
LocalInstant(z, date, h, mm) ==
    LocalToUtc(z, UtcInstant(date.year, date.month, date.day, h, mm))

(* Transfers: one an hour short of a week ago, two in hour 2 of today and   *)
(* one 25 hours before the first of them; mints: half an hour before       *)
(* today's midnight, and 50, 15 and 10 minutes ago.                        *)
ScenarioRows(z, now) ==
    LET today == LocalCivil(z, now)
    IN  <<RawEvent(now - WeekDays * DaySeconds + HourSeconds, "Transfer", "token"),
          RawEvent(LocalInstant(z, today, 2, 10) - 25 * HourSeconds,
                   "Transfer", "token"),
          RawEvent(LocalInstant(z, today, 0, 0) - HalfHourSeconds,
                   "Minted", "token"),
          RawEvent(LocalInstant(z, today, 2, 10), "Transfer", "token"),
          RawEvent(LocalInstant(z, today, 2, 40), "Transfer", "token"),
          RawEvent(now - 50 * 60, "Minted", "token"),
          RawEvent(now - 15 * 60, "Minted", "token"),
          RawEvent(now - 10 * 60, "Minted", "token")>>

ScenarioInit ==
    \E zc \in ScenarioClocks, age \in ScenarioAges :
        ViewStart(zc[1], zc[2], age, ScenarioRows(zc[1], zc[2]), MaxPasses - 1)

SpecScenario == ScenarioInit /\ [][ViewNext]_vars

(***************************************************************************)
(* Claims about the Time Bucketer and the counting loop.                   *)
(***************************************************************************)
BucketCount(range) ==
    IF range = TIME_RANGES.DAY THEN DayHours
    ELSE IF range = TIME_RANGES.WEEK THEN WeekDays
    ELSE MonthDays

(* What one forEach iteration may do to a Bucket Map, as the contract      *)
(* states it: exactly the entry of the record's label gains 1, or, when    *)
(* the label is no key, nothing changes at all.                            *)
CountFrame(before, after, event) ==
    LET label == timeLabel(tz, event, timeRange)
    IN  IF \E i \in DOMAIN before : before[i].k = label
        THEN /\ Len(after) = Len(before)
             /\ \A i \in DOMAIN before :
                    /\ after[i].k = before[i].k
                    /\ after[i].v =
                          before[i].v + (IF before[i].k = label THEN 1 ELSE 0)
        ELSE after = before

(* C1: countEvents never invents labels.  Every forEach iteration, on the  *)
(* current and on the previous map, increments exactly the entry of the    *)
(* record's label when that label is a key, and otherwise leaves the map   *)
(* unchanged and adds no key.                                              *)
C1_CountNeverInventsLabels ==
    [][/\ AggCountCurrent => CountFrame(counts, counts', currentEvents[idx])
       /\ AggCountPrevious =>
              CountFrame(previousCounts, previousCounts', previousEvents[idx])]_vars

(* Two records have been processed: one was counted, one was dropped.      *)
C1_Witness ==
    /\ pc = "countCurrent"
    /\ idx = 3
    /\ MapSum(counts) = 1
    /\ Len(counts) > 1

(* C2: both Bucket Maps have exactly 24 / 7 / 30 keys, all zero after      *)
(* initializeTimePeriodData, and still that many keys while and after      *)
(* countEvents runs.                                                       *)
C2_FixedCardinality ==
    pc \in {"countCurrent", "countPrevious", "counted"} =>
        /\ Len(counts) = BucketCount(timeRange)
        /\ Len(previousCounts) = BucketCount(timeRange)
        /\ (pc = "countCurrent" /\ idx = 1) =>
               /\ \A i \in DOMAIN counts : counts[i].v = 0
               /\ \A i \in DOMAIN previousCounts : previousCounts[i].v = 0

(* The labels of the records of a list that are keys of a map.             *)
CountedRecords(events, zeroMap) ==
    {i \in DOMAIN events : MapHas(zeroMap, timeLabel(tz, events[i], timeRange))}

SumBound(events, map, zeroMap) ==
    /\ MapSum(map) <= Len(events)
    /\ MapSum(map) = Len(events) <=> CountedRecords(events, zeroMap) = DOMAIN events

(* C3: after countEvents on a zero-initialised map the sum of the counts   *)
(* is at most the number of input records, with equality exactly when      *)
(* every record's label is a key of the pre-initialised map.               *)
C3_SumBoundedByRecords ==
    pc = "counted" =>
        LET zero == initializeTimePeriodData(tz, clock, timeRange, selectedDate)
        IN  /\ SumBound(currentEvents, counts, zero.counts)
            /\ SumBound(previousEvents, previousCounts, zero.previousCounts)

(* Two records were passed, one of them outside the map: the sum is 1.     *)
C3_Witness ==
    /\ pc = "counted"
    /\ Len(currentEvents) = 2
    /\ MapSum(counts) = 1
    /\ Len(previousEvents) = 1
    /\ MapSum(previousCounts) = 1

(* C5: the two query ranges are contiguous: previousEnd = currentStart.    *)
C5_WindowsContiguous ==
    pc # "ranges" => ranges.previousEnd = ranges.currentStart

(***************************************************************************)
(* Claims about the two pagers.                                            *)
(***************************************************************************)
(* The rows the running call asks for, in server order.                    *)
MatchingRows == SelectRows(serverEvents, evArgs.startTime, evArgs.endTime)

(* k requests were issued: offsets 0, 1000, ... / pages 1, 2, ...          *)
OffsetsInOrder(requests) ==
    \A i \in DOMAIN requests : requests[i] = (i - 1) * EventPageLimit
PagesInOrder(requests) == \A i \in DOMAIN requests : requests[i] = i

(* C6: when no request fails each pager returns all pages concatenated in  *)
(* server order and stops exactly at the terminal page: the event pager    *)
(* asks for offsets 0, 1000, 2000, ... up to and including the first page  *)
(* with fewer than 1000 rows, the artist pager for pages 1, 2, 3, ... up   *)
(* to and including the first page without a next page; no request is      *)
(* skipped, repeated or issued after the terminal page.                    *)
C6_PagersReturnAllPages ==
    /\ OffsetsInOrder(evRequests)
    /\ (evPc = "returned" /\ ~evFailed) =>
           /\ evLoop.allEvents = MatchingRows
           /\ Len(evRequests) = Len(MatchingRows) \div EventPageLimit + 1
    /\ (evPc = "loop" /\ ~evFailed) =>
           /\ evLoop.allEvents =
                  SubSeq(MatchingRows, 1, Len(evRequests) * EventPageLimit)
           /\ Len(evRequests) * EventPageLimit <= Len(MatchingRows)
    /\ PagesInOrder(arRequests)
    /\ arOutcome = "ok" =>
           /\ artists = serverArtists
           /\ Len(arRequests) =
                  IF Len(serverArtists) = 0 THEN 1
                  ELSE (Len(serverArtists) + ArtistPageLimit - 1) \div ArtistPageLimit
    /\ arPc = "loop" =>
           /\ arLoop.allArtists =
                  SubSeq(serverArtists, 1, Len(arRequests) * ArtistPageLimit)
           /\ Len(arRequests) * ArtistPageLimit < Len(serverArtists) \/ arRequests = <<>>

(* A call that needed three requests has returned every row.               *)
C6_Witness ==
    /\ evPc = "returned"
    /\ ~evFailed
    /\ evRequests = <<0, 1000, 2000>>
    /\ Len(evLoop.allEvents) = 2001

(* C7: a rejected request ends the event pager at once: it is not          *)
(* retried, nothing is thrown to the caller, and the function returns      *)
(* exactly the pages that arrived before it (none when the first request   *)
(* is the one rejected).                                                   *)
C7_EventPagerKeepsPartialResult ==
    evFailed =>
        /\ evPc = "returned"
        /\ ~evLoop.hasMore
        /\ OffsetsInOrder(evRequests)
        /\ evLoop.allEvents =
               SubSeq(MatchingRows, 1, (Len(evRequests) - 1) * EventPageLimit)
        /\ Len(evLoop.allEvents) = (Len(evRequests) - 1) * EventPageLimit

(* The second request was rejected: the first page is returned.            *)
C7_Witness ==
    /\ evFailed
    /\ evPc = "returned"
    /\ evRequests = <<0, 1000>>
    /\ Len(evLoop.allEvents) = 1000

(* C8 as claimed: when a request of fetchAllArtists is rejected after one  *)
(* or more pages arrived, those pages become the artists the view holds.   *)
C8_ArtistPagerKeepsPartialResult ==
    (arOutcome = "failed" /\ Len(arRequests) >= 2) =>
        artists = SubSeq(serverArtists, 1, (Len(arRequests) - 1) * ArtistPageLimit)

(* C8 amended: a rejected request ends fetchAllArtists at once, without a  *)
(* retry; the pages that arrived are discarded, the view keeps the artists *)
(* it held before the load, and isLoading is false again.                  *)
C8_ArtistPagerDiscardsPartialResult ==
    arOutcome = "failed" =>
        /\ artists = arBefore
        /\ ~artistsLoading
        /\ arPc = "idle"
        /\ PagesInOrder(arRequests)
        /\ arLoop.allArtists =
               SubSeq(serverArtists, 1, (Len(arRequests) - 1) * ArtistPageLimit)

(* A reload was rejected on its second page: the view still holds the one  *)
(* artist of the first load, not the 100 of the page that arrived.         *)
C8_Witness ==
    /\ arOutcome = "failed"
    /\ Len(arRequests) = 2
    /\ Len(arLoop.allArtists) = 100
    /\ Len(artists) = 1

(***************************************************************************)
(* The stat card and the chart.                                            *)
(***************************************************************************)
(* C4: the totals are the sums of the two Bucket Maps; percentageChange    *)
(* is 0 when both are 0, 100 when only the previous one is 0, and          *)
(* otherwise (currentTotal - previousTotal) / previousTotal * 100;         *)
(* isPositive holds exactly when percentageChange > 0, so equal totals     *)
(* are not positive; (5, 0) gives 100, positive, and (50, 100) gives -50,  *)
(* not positive.                                                           *)
C4_TotalsFollowPolicy ==
    LET c == MapSum(eventCounts)
        p == MapSum(previousEventCounts)
        t == shownTotals
        q == shownTotals.percentageChange
    IN  /\ c >= 0 /\ p >= 0
        /\ t.currentTotal = c
        /\ t.previousTotal = p
        /\ q.den > 0
        /\ (c = 0 /\ p = 0) => q.num = 0
        /\ (c > 0 /\ p = 0) => q.num = 100 * q.den
        /\ p > 0 => q.num * p = (c - p) * 100 * q.den
        /\ t.isPositive <=> q.num > 0
        /\ c = p => ~t.isPositive
        /\ (c = 5 /\ p = 0) => (q.num = 100 * q.den /\ t.isPositive)
        /\ (c = 50 /\ p = 100) => (q.num = (0 - 50) * q.den /\ ~t.isPositive)

C4_Witness ==
    /\ pc = "published"
    /\ shownTotals.currentTotal = 50
    /\ shownTotals.previousTotal = 100
    /\ ~shownTotals.isPositive

(* C9: in day mode, with the wall clock in hour N, the first plotted       *)
(* bucket is hour (N + 1) mod 24 and the last plotted bucket is hour N.    *)
(* (With 24 distinct hour buckets, hour h is the (h + 1)-th key.)          *)
C9_DayChartRollsFromNextHour ==
    (pc = "published" /\ timeRange = TIME_RANGES.DAY
        /\ Len(eventCounts) = DayHours)
    => LET N == getHours(tz, clock)
       IN  /\ Len(shownChart) = DayHours
           /\ shownChart[1].timeLabel = eventCounts[((N + 1) % DayHours) + 1].k
           /\ shownChart[DayHours].timeLabel = eventCounts[N + 1].k

(* C10: in every mode the i-th plotted point carries the label and the     *)
(* count of the i-th current bucket in chronological order and the count   *)
(* of the i-th previous bucket in chronological order.  The maps are       *)
(* built oldest bucket first, so the chronological order of a map is the   *)
(* order of its keys.                                                      *)
C10_ChartIsPointwiseMerge ==
    pc = "published"
    => /\ Len(shownChart) = Len(eventCounts)
       /\ \A i \in DOMAIN shownChart :
            /\ shownChart[i].timeLabel = eventCounts[i].k
            /\ shownChart[i].count = eventCounts[i].v
            /\ shownChart[i].previousCount =
                  IF i \in DOMAIN previousEventCounts
                  THEN previousEventCounts[i].v ELSE 0

(***************************************************************************)
(* The fetch windows and malformed records.                                *)
(***************************************************************************)
(* C18: in every mode each of the two fetch windows is a half-open         *)
(* interval [start, end) as long as the mode's period: the current fetch   *)
(* has an upper bound end = start + period, and so has the previous one.   *)
C18_WindowsHavePeriodLength ==
    pc # "ranges"
    => /\ ranges.currentEnd # Undefined
       /\ ranges.currentEnd - ranges.currentStart = periodLength(timeRange)
       /\ ranges.previousEnd # Undefined
       /\ ranges.previousEnd - ranges.previousStart = periodLength(timeRange)

(* C19: a record whose timestamp is missing or malformed changes no count  *)
(* and adds no key, in either map; the iteration goes on to the next       *)
(* record.                                                                 *)
C19_MalformedRecordIsSkipped ==
    [][/\ (pc = "countCurrent" /\ idx <= Len(currentEvents)
              /\ currentEvents[idx].block_timestamp \in {NaN, Null})
          => (counts' = counts /\ pc' = pc /\ idx' = idx + 1)
       /\ (pc = "countPrevious" /\ idx <= Len(previousEvents)
              /\ previousEvents[idx].block_timestamp \in {NaN, Null})
          => (previousCounts' = previousCounts /\ pc' = pc /\ idx' = idx + 1)]_vars

(***************************************************************************)
(* Overlapping aggregation passes.                                         *)
(***************************************************************************)
(* C12: a pass that completes publishes the two maps it built from its     *)
(* own selection, whether or not it is still the latest pass, and a later  *)
(* change of the selection leaves every pass in flight as it is: nothing   *)
(* cancels or discards a stale pass.                                       *)
C12_StalePassPublishes ==
    [][\A p \in DOMAIN passes :
          /\ p \in DOMAIN passes'
          /\ (passes[p].pc = "periods" /\ passes'[p].pc = "done")
                => /\ eventCounts' = bucketed(tz, clock, passes'[p]).counts
                   /\ previousEventCounts' =
                          bucketed(tz, clock, passes'[p]).previousCounts
          /\ (<<selectedEvent, timeRange, selectedDate>>' #
                 <<selectedEvent, timeRange, selectedDate>>)
                => passes'[p] = passes[p]]_vars

(* The first pass completed after the second one: the maps on display are  *)
(* those of the first selection while the second one is selected.          *)
C12_StaleMapsShown ==
    /\ Len(passes) >= 2
    /\ passes[1].pc = "done"
    /\ passes[2].pc = "done"
    /\ writers.maps = 1
    /\ <<passes[1].event.id, passes[1].timeRange, passes[1].selectedDate>> #
          <<selectedEvent, timeRange, selectedDate>>
    /\ <<passes[2].event.id, passes[2].timeRange, passes[2].selectedDate>> =
          <<selectedEvent, timeRange, selectedDate>>
    /\ eventCounts = bucketed(tz, clock, passes[1]).counts
    /\ eventCounts # bucketed(tz, clock, passes[2]).counts

(* C13: in every reachable state the two maps and the 30-minute count on   *)
(* display were produced by one and the same pass.                         *)
C13_OnePassProducedAll ==
    writers.maps # 0 => writers.last30 = writers.maps

(* C14: within a pass both period loops have their first request out       *)
(* before either is awaited; a turn of one loop leaves the other loop as   *)
(* it is and is answered from that loop's own arguments and offset; and    *)
(* the pass buckets and publishes only once both loops have returned.      *)
C14_LoopsConcurrentThenJoined ==
    [][\A p \in DOMAIN passes :
          LET before == passes[p]
              after  == passes'[p]
          IN  /\ (before.pc = "last30" /\ after.pc = "periods")
                    => /\ after.current = eventsLoopStart
                       /\ after.previous = eventsLoopStart
              /\ (before.pc = "periods" /\ after.current # before.current)
                    => /\ after.previous = before.previous
                       /\ after.current =
                              eventsOnPage(before.current,
                                  pageFor(serverEvents, before,
                                          currentArgs(before), before.current))
              /\ (before.pc = "periods" /\ after.previous # before.previous)
                    => /\ after.current = before.current
                       /\ after.previous =
                              eventsOnPage(before.previous,
                                  pageFor(serverEvents, before,
                                          previousArgs(before), before.previous))
              /\ (before.pc # "done" /\ after.pc = "done")
                    => /\ ~after.current.hasMore
                       /\ ~after.previous.hasMore
              /\ (before.pc # "done" /\ after.pc # "done")
                    => UNCHANGED <<eventCounts, previousEventCounts>>
                       \/ \E q \in DOMAIN passes :
                              passes[q].pc # "done" /\ passes'[q].pc = "done"]_vars

(* One period loop of a pass has returned while the other still has a      *)
(* request out, and the pass has not published.                            *)
C14_OneLoopStillOut ==
    \E p \in DOMAIN passes :
        /\ passes[p].pc = "periods"
        /\ ~passes[p].current.hasMore
        /\ passes[p].previous.hasMore
        /\ writers.maps # p

(* C15: while an event is selected, every change of the mode, the date or  *)
(* the event starts a new pass from the first fetch, with the new          *)
(* selection; and a pass that completes replaces both maps by maps counted *)
(* from the zero-initialised buckets of its mode and date over the records *)
(* it fetched, so that no key and no count of the maps shown before        *)
(* carries over.                                                           *)
C15_ChangeRebuildsFromZero ==
    [][/\ (/\ <<selectedEvent, timeRange, selectedDate>>' #
                 <<selectedEvent, timeRange, selectedDate>>
           /\ selectedEventFound(EventTypes, selectedEvent').eventName # "")
          => /\ Len(passes') = Len(passes) + 1
             /\ passes'[Len(passes')] =
                    passStart(selectedEventFound(EventTypes, selectedEvent'),
                              timeRange', selectedDate')
             /\ isLoading'
       /\ \A p \in DOMAIN passes :
             (passes[p].pc # "done" /\ passes'[p].pc = "done")
             => /\ eventCounts' =
                      countEvents(tz, passes'[p].current.allEvents,
                          initializeTimePeriodData(tz, clock, passes[p].timeRange,
                              passes[p].selectedDate).counts,
                          passes[p].timeRange)
                /\ previousEventCounts' =
                      countEvents(tz, passes'[p].previous.allEvents,
                          initializeTimePeriodData(tz, clock, passes[p].timeRange,
                              passes[p].selectedDate).previousCounts,
                          passes[p].timeRange)
                /\ MapSum(eventCounts') <= Len(passes'[p].current.allEvents)
                /\ MapSum(previousEventCounts')
                      <= Len(passes'[p].previous.allEvents)]_vars

(* A second pass, for another selection, has replaced maps that held       *)
(* counts of the first.                                                    *)
C15_SecondPassReplacedMaps ==
    /\ Len(passes) >= 2
    /\ passes[1].pc = "done"
    /\ passes[2].pc = "done"
    /\ writers.maps = 2
    /\ MapSum(bucketed(tz, clock, passes[1]).counts) > 0
    /\ MapSum(eventCounts) > 0
    /\ eventCounts # bucketed(tz, clock, passes[1]).counts

(***************************************************************************)
(* End to end: from the rows on the server to the numbers on display.      *)
(***************************************************************************)
(* C11: when a day-mode pass for the reference date D has completed, the   *)
(* current bucket of every hour h of D holds the number of the selected    *)
(* event's records whose timestamp lies in hour h of D, the previous       *)
(* bucket of every hour holds the number of records in that hour of the    *)
(* calendar day before D, and the totals are the sums of these; with two   *)
(* records in hour 2 of D and one in the day before: 2, 1 and 100 percent. *)
C11_DayBucketsCountTheirHour ==
    \A p \in DOMAIN passes :
        (/\ writers.maps = p
         /\ passes[p].timeRange = TIME_RANGES.DAY
         /\ passes[p].selectedDate # NoDate)
        => LET D       == passes[p].selectedDate
               before  == CivilFromDays(DaysFromCivil(D.year, D.month, D.day) - 1)
               rows    == RowsOfEvent(serverEvents, passes[p].event)
               key(date, h) ==
                   MonthShort[date.month] \o " " \o ToString(date.day) \o ", "
                       \o ToString(IF h % 12 = 0 THEN 12 ELSE h % 12) \o " "
                       \o (IF h < 12 THEN "AM" ELSE "PM")
               inHour(date, h) ==
                   Cardinality({i \in DOMAIN rows :
                       /\ LocalCivil(tz, rows[i].block_timestamp) = date
                       /\ getHours(tz, rows[i].block_timestamp) = h})
               inDay(date) ==
                   Cardinality({i \in DOMAIN rows :
                       LocalCivil(tz, rows[i].block_timestamp) = date})
           IN  /\ \A h \in 0..(DayHours - 1) :
                     /\ MapHas(eventCounts, key(D, h))
                     /\ MapGet(eventCounts, key(D, h)) = inHour(D, h)
                     /\ MapHas(previousEventCounts, key(before, h))
                     /\ MapGet(previousEventCounts, key(before, h))
                           = inHour(before, h)
               /\ shownTotals.currentTotal = inDay(D)
               /\ shownTotals.previousTotal = inDay(before)
               /\ (inDay(D) = 2 /\ inDay(before) = 1)
                     => shownTotals.percentageChange = [num |-> 100, den |-> 1]

(* C16: once a pass has set the 30-minute count, it is the number of the   *)
(* selected event's records whose timestamp lies in the 30 minutes ending  *)
(* at "now", whichever mode and date the pass was started with.            *)
C16_CountOfLastThirtyMinutes ==
    \A p \in DOMAIN passes :
        writers.last30 = p
        => last30MinCount =
              Cardinality({i \in DOMAIN serverEvents :
                  /\ serverEvents[i].event_name = passes[p].event.eventName
                  /\ serverEvents[i].contract_name = passes[p].event.contractType
                  /\ serverEvents[i].block_timestamp >= clock - HalfHourSeconds
                  /\ serverEvents[i].block_timestamp <= clock})

(* C17: a pass started at wall-clock time t fetches the 30-minute window   *)
(* from t - 30 min and the week and month windows from t - 7 d and         *)
(* t - 30 d, the same t from which it builds its bucket labels.            *)
C17_PassUsesItsStartAsNow ==
    \A p \in DOMAIN passes :
        /\ last30Args(timeStamps).startTime = clock - HalfHourSeconds
        /\ (passes[p].pc # "last30" /\ passes[p].timeRange = TIME_RANGES.WEEK)
              => passes[p].ranges.currentStart = clock - WeekDays * DaySeconds
        /\ (passes[p].pc # "last30" /\ passes[p].timeRange = TIME_RANGES.MONTH)
              => passes[p].ranges.currentStart = clock - MonthDays * DaySeconds

(***************************************************************************)
(* Rejected requests.                                                      *)
(***************************************************************************)
(* C20: whatever requests are rejected, every aggregation pass runs to its *)
(* end and isLoading goes back to false, every artist load ends with its   *)
(* isLoading false, and what the view shows is always a count: no NaN and  *)
(* no missing value.                                                       *)
C20_FailuresNeverStickOrShow ==
    /\ \A p \in 1..MaxPasses :
          [](p \in DOMAIN passes
                => <>(p \in DOMAIN passes /\ passes[p].pc = "done"))
    /\ [](isLoading => <>(~isLoading))
    /\ [](arPc = "loop" => <>(arPc = "idle" /\ ~artistsLoading))
    /\ [](/\ last30MinCount \in Nat
          /\ shownTotals.currentTotal \in Nat
          /\ shownTotals.previousTotal \in Nat
          /\ \A i \in DOMAIN eventCounts : eventCounts[i].v \in Nat
          /\ \A i \in DOMAIN previousEventCounts :
                previousEventCounts[i].v \in Nat
          /\ arOutcome = "failed" => artists = arBefore)

(* A pass in which a request was rejected has completed and the loader is  *)
(* gone.                                                                   *)
C20_FailedPassCompleted ==
    \E p \in DOMAIN passes :
        /\ passes[p].failures > 0
        /\ passes[p].pc = "done"
        /\ writers.maps = p
        /\ ~isLoading

(* C21: isLoading is true in every state in which a pass is still in       *)
(* flight, also while passes overlap.                                      *)
C21_LoadingWhilePassInFlight ==
    (\E p \in DOMAIN passes : passes[p].pc # "done") => isLoading

(* C22: once a pass without fetch errors has published its maps, the       *)
(* totals on display equal the numbers of records the pass fetched for     *)
(* the current and for the previous window.                                *)
C22_TotalsEqualRecordsFetched ==
    (writers.maps # 0 /\ passes[writers.maps].failures = 0) =>
        /\ shownTotals.currentTotal =
               Len(passes[writers.maps].current.allEvents)
        /\ shownTotals.previousTotal =
               Len(passes[writers.maps].previous.allEvents)

(* The sums of the two series the chart plots.                             *)
RECURSIVE PlottedFrom(_, _, _)
PlottedFrom(rows, i, previous) ==
    IF i > Len(rows) THEN 0
    ELSE (IF previous THEN rows[i].previousCount ELSE rows[i].count)
             + PlottedFrom(rows, i + 1, previous)

(* C23: the current counts plotted in the chart add up to currentTotal     *)
(* and the plotted previous counts add up to previousTotal, in every mode  *)
(* and at every hour.                                                      *)
C23_ChartSumsEqualTotals ==
    /\ PlottedFrom(shownChart, 1, FALSE) = shownTotals.currentTotal
    /\ PlottedFrom(shownChart, 1, TRUE) = shownTotals.previousTotal

(***************************************************************************)
(* The artists table.                                                      *)
(***************************************************************************)
(* C24: whatever is searched, sorted, paged and reloaded, currentPage      *)
(* stays within 1..max(1, totalPages).                                     *)
C24_CurrentPageInRange ==
    /\ currentPage >= 1
    /\ currentPage <= (IF totalPages(shownArtists) > 1
                       THEN totalPages(shownArtists) ELSE 1)

(***************************************************************************)
(* The view before an event is selected, and the date input.               *)
(***************************************************************************)
(* C25: while the selected id matches no entry of eventTypes, a change of  *)
(* the mode or of the date starts no pass and leaves isLoading, both maps  *)
(* and the 30-minute count as they are; the totals and the percentage      *)
(* change are 0.                                                           *)
C25_NoEventNoFetch ==
    [][(/\ selectedEventFound(EventTypes, selectedEvent).eventName = ""
        /\ selectedEvent' = selectedEvent
        /\ (timeRange' # timeRange \/ selectedDate' # selectedDate))
       => /\ passes' = passes
          /\ isLoading' = isLoading
          /\ eventCounts' = eventCounts
          /\ previousEventCounts' = previousEventCounts
          /\ last30MinCount' = last30MinCount
          /\ shownTotals'.currentTotal = 0
          /\ shownTotals'.previousTotal = 0
          /\ shownTotals'.percentageChange.num = 0]_vars

(* No event selected, and both the mode and the date were changed.         *)
C25_ChangedWithoutEvent ==
    /\ selectedEvent = ""
    /\ timeRange = TIME_RANGES.DAY
    /\ selectedDate = ToIsoDate(clock - DaySeconds)
    /\ passes = <<>>
    /\ ~isLoading

(* The calendar day `shift` days after the date D.                         *)
DayAfter(D, shift) ==
    CivilFromDays(DaysFromCivil(D.year, D.month, D.day) + shift)

(* C26: picking a date sets the mode to day and the reference date to the  *)
(* picked date, whatever the mode was; the pass this starts fetches the    *)
(* picked calendar day as the current window and the calendar day before   *)
(* it as the previous window; and a later change of the mode leaves the    *)
(* reference date as it is.                                                *)
C26_PickedDayIsFetched ==
    /\ [][selectedDate' # selectedDate
             => /\ timeRange' = TIME_RANGES.DAY
                /\ selectedDate' \in ViewDates(clock)]_vars
    /\ [][(timeRange' # timeRange /\ timeRange' # TIME_RANGES.DAY)
             => selectedDate' = selectedDate]_vars
    /\ [](\A p \in DOMAIN passes :
            (/\ passes[p].timeRange = TIME_RANGES.DAY
             /\ passes[p].selectedDate \in ViewDates(clock)
             /\ passes[p].pc # "last30")
            => /\ passes[p].ranges.currentStart =
                     LocalInstant(tz, passes[p].selectedDate, 0, 0)
               /\ passes[p].ranges.currentEnd =
                     LocalInstant(tz, DayAfter(passes[p].selectedDate, 1), 0, 0)
               /\ passes[p].ranges.previousStart =
                     LocalInstant(tz, DayAfter(passes[p].selectedDate, 0 - 1), 0, 0)
               /\ passes[p].ranges.previousEnd =
                     LocalInstant(tz, passes[p].selectedDate, 0, 0))

====
